---- MODULE Spec2Model ----
(***************************************************************************)
(* Agent Arena: the constant-product pool (core/defi_mechanics.py), the    *)
(* agents' economic state (core/agent.py), the turn loop of the            *)
(* simulation engine (core/simulation.py), the Gini coefficient of the     *)
(* analyzer (core/analyzer.py) and the handler that starts a run over HTTP *)
(* (web/app.py).                                                           *)
(*                                                                         *)
(* Python floats are modelled as exact rationals [n |-> Int, d |-> Nat],   *)
(* kept in lowest terms with d > 0; IEEE rounding is not modelled.         *)
(***************************************************************************)
EXTENDS Integers, Sequences, FiniteSets, TLC

(***************************************************************************)
(* Exact rational arithmetic standing for Python float arithmetic.  A      *)
(* result whose numerator or denominator would exceed MaxMagnitude is NaR  *)
(* (not representable); NaR propagates, and no step that meets it is       *)
(* explored.                                                               *)
(***************************************************************************)
\* Largest numerator or denominator the model computes with (TLC integers
\* are 32-bit; a sum of two products within this limit still fits).
MaxMagnitude == 1000000000

Abs(x) == IF x < 0 THEN -x ELSE x

RECURSIVE GCD(_, _)
GCD(a, b) == IF b = 0 THEN a ELSE GCD(b, a % b)

NaR == [n |-> 0, d |-> 0]

Ok(a) == a.d # 0

\* x * y stays within MaxMagnitude.
MulFits(x, y) == x = 0 \/ Abs(y) <= MaxMagnitude \div Abs(x)

Rat(n, d) ==
    LET s == IF d < 0 THEN -1 ELSE 1
        g == GCD(Abs(n), Abs(d))
    IN  IF d = 0 THEN NaR ELSE [n |-> s * (n \div g), d |-> s * (d \div g)]

R(k) == [n |-> k, d |-> 1]

Zero == R(0)

RNeg(a) == [n |-> -a.n, d |-> a.d]

RAdd(a, b) ==
    IF ~Ok(a) \/ ~Ok(b) THEN NaR
    ELSE LET g == GCD(a.d, b.d)
             ad == a.d \div g
             bd == b.d \div g
         IN  IF MulFits(a.n, bd) /\ MulFits(b.n, ad) /\ MulFits(ad, b.d)
             THEN Rat(a.n * bd + b.n * ad, ad * b.d)
             ELSE NaR

RSub(a, b) == RAdd(a, RNeg(b))

RMul(a, b) ==
    IF ~Ok(a) \/ ~Ok(b) THEN NaR
    ELSE IF a.n = 0 \/ b.n = 0 THEN Zero
    ELSE LET g1 == GCD(Abs(a.n), b.d)
             g2 == GCD(Abs(b.n), a.d)
             an == a.n \div g1
             bn == b.n \div g2
             ad == a.d \div g2
             bd == b.d \div g1
         IN  IF MulFits(an, bn) /\ MulFits(ad, bd)
             THEN [n |-> an * bn, d |-> ad * bd]
             ELSE NaR

\* 1 / a; a zero divisor is the caller's ZeroDivisionError.
RInv(a) == IF a.n < 0 THEN [n |-> -a.d, d |-> -a.n] ELSE [n |-> a.d, d |-> a.n]

RDiv(a, b) == RMul(a, RInv(b))

\* a < b, decided on the continued-fraction expansions (no cross products).
RECURSIVE RLt(_, _)
RLt(a, b) ==
    IF ~Ok(a) \/ ~Ok(b) THEN FALSE
    ELSE LET fa == a.n \div a.d
             fb == b.n \div b.d
             ra == a.n % a.d
             rb == b.n % b.d
         IN  IF fa # fb THEN fa < fb
             ELSE IF rb = 0 THEN FALSE
             ELSE IF ra = 0 THEN TRUE
             ELSE RLt([n |-> b.d, d |-> rb], [n |-> a.d, d |-> ra])

RLe(a, b) == ~RLt(b, a)

RMin(a, b) == IF ~Ok(a) \/ ~Ok(b) THEN NaR ELSE IF RLe(a, b) THEN a ELSE b

RPos(a) == a.n > 0

\* Integer square root, by bisection on [lo, hi].
RECURSIVE ISqrtIn(_, _, _)
ISqrtIn(k, lo, hi) ==
    IF lo >= hi THEN lo
    ELSE LET mid == (lo + hi + 1) \div 2
         IN  IF mid <= k \div mid THEN ISqrtIn(k, mid, hi) ELSE ISqrtIn(k, lo, mid - 1)

ISqrt(k) == IF k <= 0 THEN 0 ELSE ISqrtIn(k, 1, k)

\* x ** 0.5; exact only when numerator and denominator are squares, NaR otherwise.
RSqrt(a) ==
    IF ~Ok(a) \/ a.n < 0 THEN NaR
    ELSE LET rn == ISqrt(a.n)
             rd == ISqrt(a.d)
         IN  IF rn * rn = a.n /\ rd * rd = a.d THEN [n |-> rn, d |-> rd] ELSE NaR

RECURSIVE RSum(_, _)
RSum(f, S) ==
    IF S = {} THEN Zero
    ELSE LET x == CHOOSE y \in S : TRUE IN RAdd(f[x], RSum(f, S \ {x}))

(***************************************************************************)
(* Program constants.                                                      *)
(***************************************************************************)
SWAP_FEE == Rat(3, 1000)

INITIAL_TOKENS == 100

POOL_RESERVE == 1000

ALLIANCE_BONUS == 4

LIQUIDITY_BONUS == 8

SWAP_BONUS == 3

COORDINATED_TRADE_BONUS == 5

PROFITABLE_TRADE_BONUS == 5

PROFIT_BONUS == 10

MARKET_MAKER_INTERVAL == 3

MARKET_MAKER_VOLATILITY == Rat(15, 100)

BOREDOM_THRESHOLD == 1

BOREDOM_PENALTY_PER_TURN == 10

(***************************************************************************)
(* Bounds of the model.                                                    *)
(***************************************************************************)
\* Agents in a run (num_agents).
NumAgents == 2

\* Turns in a run (turns_per_run).
TurnsPerRun == 3

\* Pool operations in one behaviour of the pool specification.
MaxPoolOps == 3

\* Inputs of a run beyond do_nothing and alliance proposals: decisions of
\* any other shape, price shocks and chaos actions.
MaxExtras == 1

(***************************************************************************)
(* State.                                                                  *)
(***************************************************************************)
VARIABLES
    pool,       \* the Pool object: reserve_a, reserve_b, liquidity_providers, constant_product
    agents,     \* Simulation.agents: index 0..n-1 -> the Agent's fields
    pc,         \* position of Simulation.run
    turn,       \* the loop variable of Simulation.run
    idx,        \* index of the next agent of the per-agent loop
    sim,        \* configuration and attributes of the Simulation object
    ev,         \* the last operation: its arguments, what it returned or raised
    hist,       \* what the current turn has done so far, in order (pool alone: the call before the last)
    budget      \* how many more bounded inputs the environment may still supply

vars == <<pool, agents, pc, turn, idx, sim, ev, hist, budget>>

\* self.agents before initialize_run: the empty list.
NoAgents == [i \in {} |-> Zero]

\* No operation has run yet.
NoEvent == [op |-> "none"]

(***************************************************************************)
(* Pool (core/defi_mechanics.py).                                          *)
(***************************************************************************)
EmptyMap == [x \in {} |-> Zero]

\* dict.get(key, default)
Get(m, k, default) == IF k \in DOMAIN m THEN m[k] ELSE default

\* dict[key] = value
Put(m, k, v) == [x \in DOMAIN m \cup {k} |-> IF x = k THEN v ELSE m[x]]

Pool(ra, rb) ==
    [reserve_a |-> ra, reserve_b |-> rb, liquidity_providers |-> EmptyMap,
     constant_product |-> RMul(ra, rb)]

total_liquidity(p) == RSum(p.liquidity_providers, DOMAIN p.liquidity_providers)

\* calculate_output against the input reserve as it is after the deposit.
calculate_output_post(amount_in, reserve_in, reserve_out) ==
    IF ~RPos(amount_in) \/ ~RPos(reserve_in) \/ ~RPos(reserve_out) THEN Zero
    ELSE RDiv(RMul(amount_in, reserve_out), RAdd(RAdd(reserve_in, amount_in), amount_in))

\* calculate_output at the spot price: the trade's own size is left out.
calculate_output_spot(amount_in, reserve_in, reserve_out) ==
    IF ~RPos(amount_in) \/ ~RPos(reserve_in) \/ ~RPos(reserve_out) THEN Zero
    ELSE RDiv(RMul(amount_in, reserve_out), reserve_in)

\* calculate_output with the input counted twice in the numerator.
calculate_output_doubled(amount_in, reserve_in, reserve_out) ==
    IF ~RPos(amount_in) \/ ~RPos(reserve_in) \/ ~RPos(reserve_out) THEN Zero
    ELSE RDiv(RMul(RMul(R(2), amount_in), reserve_out), RAdd(reserve_in, amount_in))

\* Pool._calculate_output
calculate_output(amount_in, reserve_in, reserve_out) ==
    IF ~RPos(amount_in) \/ ~RPos(reserve_in) \/ ~RPos(reserve_out) THEN Zero
    ELSE LET numerator == RMul(amount_in, reserve_out)
             denominator == RAdd(reserve_in, amount_in)
         IN  RDiv(numerator, denominator)

\* Lines 34-37 (token_in = "a") and 41-44 (otherwise): the fee is taken out
\* of the output, the input joins its reserve, the output leaves the other.
swap_settle(p, token_in, amount_in, gross, fee) ==
    LET amount_out == RSub(gross, fee)
        ra == IF token_in = "a" THEN RAdd(p.reserve_a, amount_in)
              ELSE RSub(p.reserve_a, amount_out)
        rb == IF token_in = "a" THEN RSub(p.reserve_b, amount_out)
              ELSE RAdd(p.reserve_b, amount_in)
    IN  [pool |-> [p EXCEPT !.reserve_a = ra, !.reserve_b = rb,
                            !.constant_product = RMul(ra, rb)],
         out |-> amount_out, fee |-> fee, exc |-> "none"]

\* swap_fee with the fee paid out on top of the output instead of retained.
swap_fee_rebate(p, token_in, amount_in, gross) ==
    swap_settle(p, token_in, amount_in, gross, RNeg(RMul(gross, SWAP_FEE)))

\* Lines 33 and 40: fee = amount_out * SWAP_FEE on the gross output.
swap_fee(p, token_in, amount_in, gross) ==
    swap_settle(p, token_in, amount_in, gross, RMul(gross, SWAP_FEE))

\* swap without the amount_in <= 0 guard of lines 28-29.
swap_unguarded(p, token_in, amount_in) ==
    IF token_in = "a"
    THEN swap_fee(p, token_in, amount_in,
                  calculate_output(amount_in, p.reserve_a, p.reserve_b))
    ELSE swap_fee(p, token_in, amount_in,
                  calculate_output(amount_in, p.reserve_b, p.reserve_a))

\* Pool.swap: the pool afterwards and the returned (amount_out, fee).
swap(p, token_in, amount_in) ==
    IF ~RPos(amount_in) THEN [pool |-> p, out |-> Zero, fee |-> Zero, exc |-> "none"]
    ELSE IF token_in = "a"
    THEN swap_fee(p, token_in, amount_in,
                  calculate_output(amount_in, p.reserve_a, p.reserve_b))
    ELSE swap_fee(p, token_in, amount_in,
                  calculate_output(amount_in, p.reserve_b, p.reserve_a))

\* Pool.provide_liquidity: the pool afterwards and the minted LP tokens.
provide_liquidity(p, amount_a, amount_b, agent_name) ==
    IF ~RPos(amount_a) \/ ~RPos(amount_b) THEN [pool |-> p, lp |-> Zero, exc |-> "none"]
    ELSE IF total_liquidity(p) # Zero /\ (p.reserve_a = Zero \/ p.reserve_b = Zero)
    THEN [pool |-> p, lp |-> Zero, exc |-> "ZeroDivisionError"]
    ELSE
        LET lp_tokens ==
                IF total_liquidity(p) = Zero THEN RSqrt(RMul(amount_a, amount_b))
                ELSE LET share_a == RDiv(amount_a, p.reserve_a)
                         share_b == RDiv(amount_b, p.reserve_b)
                         share == RMin(share_a, share_b)
                     IN  RMul(share, RAdd(p.reserve_a, p.reserve_b))
            ra == RAdd(p.reserve_a, amount_a)
            rb == RAdd(p.reserve_b, amount_b)
        IN  [pool |-> [reserve_a |-> ra, reserve_b |-> rb,
                       liquidity_providers |->
                           Put(p.liquidity_providers, agent_name,
                               RAdd(Get(p.liquidity_providers, agent_name, Zero), lp_tokens)),
                       constant_product |-> RMul(ra, rb)],
             lp |-> lp_tokens, exc |-> "none"]

\* Pool.withdraw_liquidity: the pool afterwards and the returned (amount_a, amount_b).
\* An actor without an entry raises KeyError at line 87, after the reserves
\* were reduced and before the cached product is refreshed.
withdraw_liquidity(p, lp_tokens, agent_name) ==
    LET total_lp == total_liquidity(p)
    IN  IF total_lp = Zero \/ ~RPos(lp_tokens)
        THEN [pool |-> p, amount_a |-> Zero, amount_b |-> Zero, exc |-> "none"]
        ELSE
            LET share == RDiv(lp_tokens, total_lp)
                amount_a == RMul(p.reserve_a, share)
                amount_b == RMul(p.reserve_b, share)
                ra == RSub(p.reserve_a, amount_a)
                rb == RSub(p.reserve_b, amount_b)
            IN  IF agent_name \notin DOMAIN p.liquidity_providers
                THEN [pool |-> [p EXCEPT !.reserve_a = ra, !.reserve_b = rb],
                      amount_a |-> Zero, amount_b |-> Zero, exc |-> "KeyError"]
                ELSE [pool |-> [reserve_a |-> ra, reserve_b |-> rb,
                                liquidity_providers |->
                                    Put(p.liquidity_providers, agent_name,
                                        RSub(p.liquidity_providers[agent_name], lp_tokens)),
                                constant_product |-> RMul(ra, rb)],
                      amount_a |-> amount_a, amount_b |-> amount_b, exc |-> "none"]

price_ab(p) == IF RPos(p.reserve_a) THEN RDiv(p.reserve_b, p.reserve_a) ELSE Zero

price_ba(p) == IF RPos(p.reserve_b) THEN RDiv(p.reserve_a, p.reserve_b) ELSE Zero

\* Every number of the pool is representable.
PoolOk(p) ==
    /\ Ok(p.reserve_a) /\ Ok(p.reserve_b) /\ Ok(p.constant_product)
    /\ \A k \in DOMAIN p.liquidity_providers : Ok(p.liquidity_providers[k])
    /\ Ok(total_liquidity(p))

(***************************************************************************)
(* Agent (core/agent.py).  trade_history and learning_summary feed only    *)
(* the prompt and the persisted strategy label and are left out.           *)
(***************************************************************************)
NoMap == [x \in {} |-> ""]

Agent(name) ==
    [name |-> name,
     token_a |-> R(INITIAL_TOKENS),
     token_b |-> R(INITIAL_TOKENS),
     alliances |-> NoMap,
     alliance_proposals |-> NoMap,
     consecutive_inaction |-> 0,
     total_boredom_penalty |-> Zero,
     last_profit |-> Zero]

calculate_profit(a) == RSub(RAdd(a.token_a, a.token_b), R(INITIAL_TOKENS * 2))

\* apply_boredom_penalty that charges only the first idle turn of a streak.
apply_boredom_penalty_once(a) ==
    IF a.consecutive_inaction = BOREDOM_THRESHOLD
    THEN [agent |-> [a EXCEPT !.token_a = RSub(a.token_a, R(BOREDOM_PENALTY_PER_TURN)),
                              !.total_boredom_penalty =
                                  RAdd(a.total_boredom_penalty, R(BOREDOM_PENALTY_PER_TURN))],
          penalty |-> R(BOREDOM_PENALTY_PER_TURN)]
    ELSE [agent |-> a, penalty |-> Zero]

\* apply_boredom_penalty that never takes token_a below zero.
apply_boredom_penalty_clamped(a) ==
    IF a.consecutive_inaction >= BOREDOM_THRESHOLD
    THEN LET penalty == R((a.consecutive_inaction - BOREDOM_THRESHOLD + 1)
                          * BOREDOM_PENALTY_PER_TURN)
         IN  [agent |-> [a EXCEPT !.token_a = IF RLt(RSub(a.token_a, penalty), Zero) THEN Zero
                                              ELSE RSub(a.token_a, penalty),
                                  !.total_boredom_penalty = RAdd(a.total_boredom_penalty, penalty)],
              penalty |-> penalty]
    ELSE [agent |-> a, penalty |-> Zero]

\* apply_boredom_penalty that stores the penalty instead of accumulating it.
apply_boredom_penalty_latest(a) ==
    IF a.consecutive_inaction >= BOREDOM_THRESHOLD
    THEN LET penalty == R((a.consecutive_inaction - BOREDOM_THRESHOLD + 1)
                          * BOREDOM_PENALTY_PER_TURN)
         IN  [agent |-> [a EXCEPT !.token_a = RSub(a.token_a, penalty),
                                  !.total_boredom_penalty = penalty],
              penalty |-> penalty]
    ELSE [agent |-> a, penalty |-> Zero]

\* Agent.apply_boredom_penalty: the agent afterwards and the returned penalty.
apply_boredom_penalty(a) ==
    IF a.consecutive_inaction >= BOREDOM_THRESHOLD
    THEN LET penalty_turns == a.consecutive_inaction - BOREDOM_THRESHOLD + 1
             penalty == R(penalty_turns * BOREDOM_PENALTY_PER_TURN)
         IN  [agent |-> [a EXCEPT !.token_a = RSub(a.token_a, penalty),
                                  !.total_boredom_penalty = RAdd(a.total_boredom_penalty, penalty)],
              penalty |-> penalty]
    ELSE [agent |-> a, penalty |-> Zero]

reset_inaction_counter(a) == [a EXCEPT !.consecutive_inaction = 0]

increment_inaction_counter(a) == [a EXCEPT !.consecutive_inaction = a.consecutive_inaction + 1]

\* get_alliance_fatigue without the half step: full bonus twice, then none.
get_alliance_fatigue_late(a, partner) ==
    IF Get(a.alliance_proposals, partner, 0) <= 1 THEN R(1) ELSE Zero

get_alliance_fatigue(a, partner) ==
    LET proposals == Get(a.alliance_proposals, partner, 0)
    IN  IF proposals = 0 THEN R(1)
        ELSE IF proposals = 1 THEN Rat(1, 2)
        ELSE Zero

record_alliance_proposal(a, partner) ==
    [a EXCEPT !.alliance_proposals = Put(a.alliance_proposals, partner,
                                         Get(a.alliance_proposals, partner, 0) + 1)]

\* A decision of the oracle: a dict that may be empty, may lack "action"
\* (absent keys are "MISSING"), may carry the label under "action_type",
\* and whose "payload" may be something other than a dict (ok = FALSE).
\* The payload fields hold what payload.get(key, default) returns.
Payload(from, amount, amount_a, amount_b, agent_name) ==
    [ok |-> TRUE, from |-> from, amount |-> amount, amount_a |-> amount_a,
     amount_b |-> amount_b, agent_name |-> agent_name]

NoPayload == Payload("a", Zero, Zero, Zero, "")

BadPayload == [NoPayload EXCEPT !.ok = FALSE]

Decision(action, payload) ==
    [empty |-> FALSE, action |-> action, action_type |-> "MISSING", payload |-> payload,
     reasoning |-> ""]

EmptyDecision ==
    [empty |-> TRUE, action |-> "MISSING", action_type |-> "MISSING", payload |-> NoPayload,
     reasoning |-> ""]

\* ErrorDecision with an unknown label in place of do_nothing.
ErrorDecisionHold == [Decision("hold", NoPayload) EXCEPT !.reasoning = "Error: e"]

\* What _agent_decide returns when agent.decide raises.
ErrorDecision == [Decision("do_nothing", NoPayload) EXCEPT !.reasoning = "Error: e"]

\* swapped that credits the output before the fee was taken off it.
swapped_gross(a, from_token, amount, r) ==
    [agent |-> IF from_token = "a"
               THEN [a EXCEPT !.token_a = RSub(a.token_a, amount),
                              !.token_b = RAdd(a.token_b, RAdd(r.out, r.fee))]
               ELSE [a EXCEPT !.token_b = RSub(a.token_b, amount),
                              !.token_a = RAdd(a.token_a, RAdd(r.out, r.fee))],
     pool |-> r.pool, success |-> TRUE, exc |-> "none"]

\* Lines 264-266 and 269-271: the agent pays the input and receives the output.
swapped(a, from_token, amount, r) ==
    [agent |-> IF from_token = "a"
               THEN [a EXCEPT !.token_a = RSub(a.token_a, amount),
                              !.token_b = RAdd(a.token_b, r.out)]
               ELSE [a EXCEPT !.token_b = RSub(a.token_b, amount),
                              !.token_a = RAdd(a.token_a, r.out)],
     pool |-> r.pool, success |-> TRUE, exc |-> "none"]

\* execute_swap without the balance tests of lines 262 and 267.
execute_swap_unchecked(a, payload, p) ==
    swapped(a, payload.from, payload.amount, swap(p, payload.from, payload.amount))

\* Agent._execute_swap
execute_swap(a, payload, p) ==
    IF \/ payload.from = "a" /\ RLe(payload.amount, a.token_a)
       \/ payload.from = "b" /\ RLe(payload.amount, a.token_b)
    THEN swapped(a, payload.from, payload.amount, swap(p, payload.from, payload.amount))
    ELSE [agent |-> a, pool |-> p, success |-> FALSE, exc |-> "none"]

\* Lines 282-284: the agent pays both amounts (a raise in the pool passes through).
provided(a, payload, r) ==
    IF r.exc # "none"
    THEN [agent |-> a, pool |-> r.pool, success |-> FALSE, exc |-> r.exc]
    ELSE [agent |-> [a EXCEPT !.token_a = RSub(a.token_a, payload.amount_a),
                              !.token_b = RSub(a.token_b, payload.amount_b)],
          pool |-> r.pool, success |-> TRUE, exc |-> "none"]

\* execute_liquidity that is content with one sufficient balance.
execute_liquidity_either(a, payload, p) ==
    IF RLe(payload.amount_a, a.token_a) \/ RLe(payload.amount_b, a.token_b)
    THEN provided(a, payload,
                  provide_liquidity(p, payload.amount_a, payload.amount_b, a.name))
    ELSE [agent |-> a, pool |-> p, success |-> FALSE, exc |-> "none"]

\* Agent._execute_liquidity
execute_liquidity(a, payload, p) ==
    IF RLe(payload.amount_a, a.token_a) /\ RLe(payload.amount_b, a.token_b)
    THEN provided(a, payload,
                  provide_liquidity(p, payload.amount_a, payload.amount_b, a.name))
    ELSE [agent |-> a, pool |-> p, success |-> FALSE, exc |-> "none"]

\* execute_alliance that counts the proposal when it is made.
execute_alliance_counting(a, payload, p) ==
    IF payload.agent_name # ""
    THEN [agent |-> record_alliance_proposal(
                        [a EXCEPT !.alliances = Put(a.alliances, payload.agent_name, "proposed")],
                        payload.agent_name),
          pool |-> p, success |-> TRUE, exc |-> "none"]
    ELSE [agent |-> a, pool |-> p, success |-> FALSE, exc |-> "none"]

\* execute_alliance that leaves an existing entry as it is.
execute_alliance_keep(a, payload, p) ==
    IF payload.agent_name # ""
    THEN [agent |-> IF payload.agent_name \in DOMAIN a.alliances THEN a
                    ELSE [a EXCEPT !.alliances =
                                       Put(a.alliances, payload.agent_name, "proposed")],
          pool |-> p, success |-> TRUE, exc |-> "none"]
    ELSE [agent |-> a, pool |-> p, success |-> FALSE, exc |-> "none"]

\* Agent._execute_alliance
execute_alliance(a, payload, p) ==
    IF payload.agent_name # ""
    THEN [agent |-> [a EXCEPT !.alliances = Put(a.alliances, payload.agent_name, "proposed")],
          pool |-> p, success |-> TRUE, exc |-> "none"]
    ELSE [agent |-> a, pool |-> p, success |-> FALSE, exc |-> "none"]

\* execute_action that reports failure for a label it has no handler for.
execute_action_strict(a, decision, p) ==
    LET action == IF decision.action # "MISSING" THEN decision.action
                  ELSE IF decision.action_type # "MISSING" THEN decision.action_type
                  ELSE ""
        payload == decision.payload
    IN  IF action \in {"swap", "provide_liquidity", "propose_alliance"} /\ ~payload.ok
        THEN [agent |-> a, pool |-> p, success |-> FALSE, exc |-> "AttributeError"]
        ELSE IF action = "swap" THEN execute_swap(a, payload, p)
        ELSE IF action = "provide_liquidity" THEN execute_liquidity(a, payload, p)
        ELSE IF action = "propose_alliance" THEN execute_alliance(a, payload, p)
        ELSE [agent |-> a, pool |-> p, success |-> action = "do_nothing", exc |-> "none"]

\* Agent.execute_action: a payload that is no dict raises AttributeError in
\* the handler's payload.get.
execute_action(a, decision, p) ==
    LET action == IF decision.action # "MISSING" THEN decision.action
                  ELSE IF decision.action_type # "MISSING" THEN decision.action_type
                  ELSE ""
        payload == decision.payload
    IN  IF action \in {"swap", "provide_liquidity", "propose_alliance"} /\ ~payload.ok
        THEN [agent |-> a, pool |-> p, success |-> FALSE, exc |-> "AttributeError"]
        ELSE IF action = "swap" THEN execute_swap(a, payload, p)
        ELSE IF action = "provide_liquidity" THEN execute_liquidity(a, payload, p)
        ELSE IF action = "propose_alliance" THEN execute_alliance(a, payload, p)
        ELSE [agent |-> a, pool |-> p, success |-> TRUE, exc |-> "none"]

\* Every number of the agent is representable, its profit included.
AgentOk(a) ==
    /\ Ok(a.token_a) /\ Ok(a.token_b) /\ Ok(a.total_boredom_penalty)
    /\ Ok(a.last_profit) /\ Ok(calculate_profit(a))

\* An entry of hist: a phase, the agent it concerns (-1: none) and an amount.
Mark(ph, who, amt) == [ph |-> ph, who |-> who, amt |-> amt]

(***************************************************************************)
(* Simulation (core/simulation.py): the passes of a turn.                  *)
(***************************************************************************)
AgentNames == <<"Agent_0", "Agent_1", "Agent_2", "Agent_3">>

AgentName(i) == AgentNames[i + 1]

\* Simulation._is_coordinated_trade: no code assigns self.price_shocks, so
\* hasattr(self, 'price_shocks') is False and only the schedule counts.
is_coordinated_trade(t) ==
    LET market_maker_just_acted == (t + 1) % MARKET_MAKER_INTERVAL = 0
        price_shock_just_happened == FALSE
    IN  market_maker_just_acted \/ price_shock_just_happened

\* grant_action_bonus whose profitable-trade test also passes on a profit
\* that merely stayed the same.
grant_action_bonus_lenient(a, action_type, t) ==
    LET coordinated == IF is_coordinated_trade(t) THEN COORDINATED_TRADE_BONUS ELSE 0
        profitable == IF RLe(a.last_profit, calculate_profit(a))
                      THEN PROFITABLE_TRADE_BONUS ELSE 0
        bonus == IF action_type = "provide_liquidity" THEN LIQUIDITY_BONUS
                 ELSE IF action_type = "swap" THEN SWAP_BONUS + coordinated + profitable
                 ELSE 0
    IN  [agent |-> IF bonus > 0 THEN [a EXCEPT !.token_a = RAdd(a.token_a, R(bonus))] ELSE a,
         bonus |-> bonus]

\* Simulation._grant_action_bonus: the agent afterwards and the bonus.
grant_action_bonus(a, action_type, t) ==
    LET coordinated == IF is_coordinated_trade(t) THEN COORDINATED_TRADE_BONUS ELSE 0
        profitable == IF RLt(a.last_profit, calculate_profit(a))
                      THEN PROFITABLE_TRADE_BONUS ELSE 0
        bonus == IF action_type = "provide_liquidity" THEN LIQUIDITY_BONUS
                 ELSE IF action_type = "swap" THEN SWAP_BONUS + coordinated + profitable
                 ELSE 0
    IN  [agent |-> IF bonus > 0 THEN [a EXCEPT !.token_a = RAdd(a.token_a, R(bonus))] ELSE a,
         bonus |-> bonus]

\* mutual that is content with a proposal from either side.
mutual_either(a, b) ==
    \/ Get(a.alliances, b.name, "") = "proposed"
    \/ Get(b.alliances, a.name, "") = "proposed"

\* mutual that only counts proposals of agents that acted in this turn.
mutual_fresh(a, b) ==
    /\ Get(a.alliances, b.name, "") = "proposed"
    /\ Get(b.alliances, a.name, "") = "proposed"
    /\ a.consecutive_inaction = 0
    /\ b.consecutive_inaction = 0

\* The test of lines 400-403 for the pair (a, b).
mutual(a, b) ==
    /\ b.name \in DOMAIN a.alliances
    /\ a.name \in DOMAIN b.alliances
    /\ a.alliances[b.name] = "proposed"
    /\ b.alliances[a.name] = "proposed"

\* ally that pays and counts but leaves the status at 'proposed'.
ally_pending(a, b) ==
    LET bonus == RMul(R(ALLIANCE_BONUS), get_alliance_fatigue(a, b.name))
        credited == [a EXCEPT !.token_a = RAdd(a.token_a, bonus)]
    IN  record_alliance_proposal(credited, b.name)

\* Lines 406-423 for one mutual pair: what each side becomes.
ally(a, b) ==
    LET bonus == RMul(R(ALLIANCE_BONUS), get_alliance_fatigue(a, b.name))
        credited == [a EXCEPT !.token_a = RAdd(a.token_a, bonus)]
        recorded == record_alliance_proposal(credited, b.name)
    IN  [recorded EXCEPT !.alliances = Put(recorded.alliances, b.name, "success")]

\* Simulation._process_alliances from the pair (i, j) on, in the order of
\* the two loops.  With persistence configured the record of a mutual pair
\* reads the undefined name `bonus` (line 439): NameError, after both sides
\* were credited and marked.
RECURSIVE process_alliances(_, _, _, _, _)
process_alliances(as, i, j, n, persist) ==
    IF i >= n - 1 THEN [agents |-> as, exc |-> "none"]
    ELSE IF j >= n THEN process_alliances(as, i + 1, i + 2, n, persist)
    ELSE IF mutual(as[i], as[j])
    THEN LET done == [as EXCEPT ![i] = ally(as[i], as[j]), ![j] = ally(as[j], as[i])]
         IN  IF persist THEN [agents |-> done, exc |-> "NameError"]
             ELSE process_alliances(done, i, j + 1, n, persist)
    ELSE process_alliances(as, i, j + 1, n, persist)

\* Simulation._grant_profit_bonuses from agent i on; fail is the number of
\* the save_action call of this pass that raises (0: none does).
\* grant_profit_bonuses that pays nobody.
grant_profit_bonuses_none(as, i, n, persist, fail) == [agents |-> as, exc |-> "none"]

\* grant_profit_bonuses that also pays an agent whose profit is exactly 0.
RECURSIVE grant_profit_bonuses_from_zero(_, _, _, _, _)
grant_profit_bonuses_from_zero(as, i, n, persist, fail) ==
    IF i >= n THEN [agents |-> as, exc |-> "none"]
    ELSE IF ~RLt(calculate_profit(as[i]), Zero)
    THEN LET paid == [as EXCEPT ![i].token_a = RAdd(as[i].token_a, R(PROFIT_BONUS))]
         IN  IF persist /\ fail = 1 THEN [agents |-> paid, exc |-> "PersistenceError"]
             ELSE grant_profit_bonuses_from_zero(paid, i + 1, n, persist,
                                                 IF persist /\ fail > 0 THEN fail - 1 ELSE fail)
    ELSE grant_profit_bonuses_from_zero(as, i + 1, n, persist, fail)

RECURSIVE grant_profit_bonuses(_, _, _, _, _)
grant_profit_bonuses(as, i, n, persist, fail) ==
    IF i >= n THEN [agents |-> as, exc |-> "none"]
    ELSE IF RPos(calculate_profit(as[i]))
    THEN LET paid == [as EXCEPT ![i].token_a = RAdd(as[i].token_a, R(PROFIT_BONUS))]
         IN  IF persist /\ fail = 1 THEN [agents |-> paid, exc |-> "PersistenceError"]
             ELSE grant_profit_bonuses(paid, i + 1, n, persist,
                                       IF persist /\ fail > 0 THEN fail - 1 ELSE fail)
    ELSE grant_profit_bonuses(as, i + 1, n, persist, fail)

\* sorted(values), for a sequence of rationals.
RECURSIVE Insert(_, _)
Insert(v, sq) ==
    IF sq = <<>> THEN <<v>>
    ELSE IF RLe(v, Head(sq)) THEN <<v>> \o sq
    ELSE <<Head(sq)>> \o Insert(v, Tail(sq))

RECURSIVE Sorted(_)
Sorted(sq) == IF sq = <<>> THEN <<>> ELSE Insert(Head(sq), Sorted(Tail(sq)))

RECURSIVE SeqSum(_)
SeqSum(sq) == IF sq = <<>> THEN Zero ELSE RAdd(Head(sq), SeqSum(Tail(sq)))

\* sum((i + 1) * val for i, val in enumerate(sq)), counting from position k.
RECURSIVE WeightedSum(_, _)
WeightedSum(sq, k) ==
    IF sq = <<>> THEN Zero
    ELSE RAdd(RMul(R(k), Head(sq)), WeightedSum(Tail(sq), k + 1))

\* The formula shared by both Gini functions, before clamping.
gini_raw(values) ==
    LET sorted_vals == Sorted(values)
        n == Len(sorted_vals)
        cumsum == WeightedSum(sorted_vals, 1)
    IN  RSub(RDiv(RMul(R(2), cumsum), RMul(R(n), SeqSum(sorted_vals))), Rat(n + 1, n))

\* Simulation._gini_coefficient
sim_gini_coefficient(values) ==
    IF values = <<>> \/ SeqSum(values) = Zero THEN Zero
    ELSE LET gini == gini_raw(values)
         IN  IF RLt(gini, Zero) THEN Zero ELSE gini

\* gini_coefficient without the clamp from above.
gini_coefficient_floor(values) ==
    IF values = <<>> \/ SeqSum(values) = Zero THEN Zero
    ELSE LET gini == gini_raw(values)
         IN  IF RLt(gini, Zero) THEN Zero ELSE gini

\* Analyzer.gini_coefficient (core/analyzer.py): max(0, min(1, gini)).  In
\* binary64 the quotient and (n + 1) / n are each rounded, so that a
\* result which is 0 here can come out one unit in the last place away
\* from it; the model does not follow that.
gini_coefficient(values) ==
    IF values = <<>> \/ SeqSum(values) = Zero THEN Zero
    ELSE LET gini == gini_raw(values)
             capped == IF RLt(gini, R(1)) THEN gini ELSE R(1)
         IN  IF RLt(capped, Zero) THEN Zero ELSE capped

\* Simulation._calculate_cooperation
calculate_cooperation(as, n) ==
    LET total == LET f[i \in 0..n] ==
                        IF i = 0 THEN 0 ELSE f[i - 1] + Cardinality(DOMAIN as[i - 1].alliances)
                 IN  f[n]
    IN  Rat(total, IF n > 1 THEN n ELSE 1)

\* Simulation._calculate_metrics
calculate_metrics(as, n, p) ==
    LET profits == [i \in 1..n |-> calculate_profit(as[i - 1])]
    IN  [gini_coefficient |-> sim_gini_coefficient(profits),
         avg_agent_profit |-> RDiv(SeqSum(profits), R(n)),
         cooperation_rate |-> calculate_cooperation(as, n),
         betrayal_count |-> 0,
         pool_stability |-> RMul(p.reserve_a, p.reserve_b)]

MetricsOk(m) ==
    /\ Ok(m.gini_coefficient) /\ Ok(m.avg_agent_profit)
    /\ Ok(m.cooperation_rate) /\ Ok(m.pool_stability)

AgentsOk(as) == \A i \in DOMAIN as : AgentOk(as[i])

(***************************************************************************)
(* Simulation.run as a state machine.                                      *)
(***************************************************************************)
\* self.pool before initialize_run (None): no operation reads it.
NonePool == Pool(Zero, Zero)

\* The Simulation object.  The dataclass declares no ENABLE_CHAOS_AGENT
\* field and no code assigns one: the attribute is "unset" unless the
\* caller puts it on the object before run().
Simulation(n, t, persist, chaos) ==
    [num_agents |-> n, turns_per_run |-> t, supabase |-> persist,
     ENABLE_MARKET_MAKER |-> TRUE, ENABLE_CHAOS_AGENT |-> chaos,
     current_run_number |-> 0]

\* PhaseAfter with the profit-bonus pass moved in front of the boredom pass.
PhaseAfterProfitFirst(ph) ==
    CASE ph = "market_maker" -> "price_shock"
      [] ph = "price_shock" -> "chaos"
      [] ph = "chaos" -> "agents"
      [] ph = "agents" -> "profit_bonus"
      [] ph = "profit_bonus" -> "boredom"
      [] ph = "boredom" -> "alliances"
      [] ph = "alliances" -> "save_states"

\* PhaseAfter with the chaos actor moved behind the agents' actions.
PhaseAfterChaosLast(ph) ==
    CASE ph = "market_maker" -> "price_shock"
      [] ph = "price_shock" -> "agents"
      [] ph = "agents" -> "chaos"
      [] ph = "chaos" -> "boredom"
      [] ph = "boredom" -> "alliances"
      [] ph = "alliances" -> "profit_bonus"
      [] ph = "profit_bonus" -> "save_states"

\* The passes of one turn, in the order of lines 119-173.
PhaseAfter(ph) ==
    CASE ph = "market_maker" -> "price_shock"
      [] ph = "price_shock" -> "chaos"
      [] ph = "chaos" -> "agents"
      [] ph = "agents" -> "boredom"
      [] ph = "boredom" -> "alliances"
      [] ph = "alliances" -> "profit_bonus"
      [] ph = "profit_bonus" -> "save_states"

Raise(exc, at) == [op |-> "raise", exc |-> exc, at |-> at]

\* shock_pct of _trigger_price_shock, drawn from Uniform(-0.10, 0.10).
ShockPcts == {Rat(-1, 20), Rat(1, 20)}

\* volatility of _chaos_agent_action, drawn from Uniform(0.15, 0.40).
ChaosVolatility == Rat(1, 4)

\* Decisions offered in every step.
CoreDecisions(i, n) ==
    {Decision("do_nothing", NoPayload), Decision("swap", BadPayload)}
    \cup {Decision("propose_alliance", Payload("a", Zero, Zero, Zero, AgentName(j))) :
            j \in (0..n - 1) \ {i}}

\* Decisions offered while the budget lasts.
ExtraDecisions ==
    {Decision("hold", NoPayload),
     Decision("MISSING", BadPayload),
     EmptyDecision,
     [Decision("MISSING", Payload("a", R(50), Zero, Zero, "")) EXCEPT !.action_type = "swap"],
     Decision("propose_alliance", NoPayload),
     Decision("swap", Payload("a", R(50), Zero, Zero, "")),
     Decision("swap", Payload("b", R(50), Zero, Zero, "")),
     Decision("swap", Payload("a", R(500), Zero, Zero, "")),
     Decision("swap", Payload("a", Zero, Zero, Zero, "")),
     Decision("swap", Payload("a", R(-10), Zero, Zero, "")),
     Decision("swap", Payload("c", R(50), Zero, Zero, "")),
     Decision("provide_liquidity", Payload("a", Zero, R(50), R(50), "")),
     Decision("provide_liquidity", Payload("a", Zero, R(400), R(25), "")),
     Decision("provide_liquidity", Payload("a", Zero, R(-10), R(50), ""))}

Init ==
    /\ pool = NonePool
    /\ agents = NoAgents
    /\ pc = "constructed"
    /\ turn = 0
    /\ idx = 0
    /\ sim \in {Simulation(NumAgents, TurnsPerRun, persist, chaos) :
                    persist \in BOOLEAN, chaos \in {"unset", "on"}}
    /\ ev = NoEvent
    /\ hist = <<>>
    /\ budget = MaxExtras

\* run() up to the turn loop: initialize_run (lines 53-69) and the banner
\* (lines 75-82), whose line 78 reads self.ENABLE_CHAOS_AGENT.
RunStart(fail) ==
    /\ pc = "constructed"
    /\ fail => sim.supabase
    /\ agents' = [i \in 0..sim.num_agents - 1 |-> Agent(AgentName(i))]
    /\ pool' = Pool(R(POOL_RESERVE), R(POOL_RESERVE))
    /\ IF fail
       THEN pc' = "raised" /\ ev' = Raise("PersistenceError", "initialize_run")
       ELSE IF sim.ENABLE_CHAOS_AGENT = "unset"
       THEN pc' = "raised" /\ ev' = Raise("AttributeError", "run")
       ELSE /\ pc' = IF sim.turns_per_run > 0 THEN "market_maker" ELSE "finish"
            /\ ev' = [op |-> "initialize_run"]
    /\ UNCHANGED <<turn, idx, sim, hist, budget>>

\* _market_maker_action after its swap r: the trade is logged.
market_maker_done(direction, amount, r) ==
    /\ PoolOk(r.pool) /\ Ok(r.out) /\ Ok(r.fee)
    /\ pool' = r.pool
    /\ hist' = Append(hist, Mark("market_maker", -1, amount))
    /\ ev' = [op |-> "market_maker", direction |-> direction, amount |-> amount,
              out |-> r.out, pre_pool |-> pool]

\* Simulation._market_maker_action with amount = reserve_a * MARKET_MAKER_VOLATILITY.
market_maker_action(direction, amount) ==
    market_maker_done(direction, amount,
                      swap(pool, IF direction = "buy_a" THEN "b" ELSE "a", amount))

\* MarketMaker that counts the interval from turn 0 instead of turn -1.
MarketMakerFromZero(direction) ==
    /\ pc = "market_maker"
    /\ IF sim.ENABLE_MARKET_MAKER /\ turn % MARKET_MAKER_INTERVAL = 0
       THEN market_maker_action(direction, RMul(pool.reserve_a, MARKET_MAKER_VOLATILITY))
       ELSE /\ direction = "buy_a"
            /\ UNCHANGED <<pool, hist>>
            /\ ev' = [op |-> "no_market_maker"]
    /\ pc' = PhaseAfter(pc)
    /\ UNCHANGED <<agents, turn, idx, sim, budget>>

\* Lines 119-121.
MarketMaker(direction) ==
    /\ pc = "market_maker"
    /\ IF sim.ENABLE_MARKET_MAKER /\ (turn + 1) % MARKET_MAKER_INTERVAL = 0
       THEN market_maker_action(direction, RMul(pool.reserve_a, MARKET_MAKER_VOLATILITY))
       ELSE /\ direction = "buy_a"
            /\ UNCHANGED <<pool, hist>>
            /\ ev' = [op |-> "no_market_maker"]
    /\ pc' = PhaseAfter(pc)
    /\ UNCHANGED <<agents, turn, idx, sim, budget>>

\* _trigger_price_shock after its swap r.
price_shock_done(shock_pct, amount, r) ==
    /\ PoolOk(r.pool) /\ Ok(r.out) /\ Ok(r.fee)
    /\ pool' = r.pool
    /\ hist' = Append(hist, Mark("price_shock", -1, amount))
    /\ ev' = [op |-> "price_shock", shock_pct |-> shock_pct, amount |-> amount,
              out |-> r.out, pre_pool |-> pool]

\* Simulation._trigger_price_shock with amount = reserve_a * abs(shock_pct).
trigger_price_shock(shock_pct, amount) ==
    price_shock_done(shock_pct, amount,
                     swap(pool, IF RPos(shock_pct) THEN "b" ELSE "a", amount))

\* Lines 123-125: fired says random() < 0.15.
PriceShock(fired, shock_pct) ==
    /\ pc = "price_shock"
    /\ IF fired
       THEN /\ budget > 0
            /\ budget' = budget - 1
            /\ trigger_price_shock(shock_pct,
                   RMul(pool.reserve_a, [n |-> Abs(shock_pct.n), d |-> shock_pct.d]))
       ELSE /\ shock_pct = Zero
            /\ UNCHANGED <<pool, hist, budget>>
            /\ ev' = [op |-> "no_price_shock"]
    /\ pc' = PhaseAfter(pc)
    /\ UNCHANGED <<agents, turn, idx, sim>>

\* _chaos_agent_action after its pool operation.
chaos_done(action_type, direction, amount, after) ==
    /\ PoolOk(after)
    /\ pool' = after
    /\ hist' = Append(hist, Mark("chaos", -1, amount))
    /\ ev' = [op |-> "chaos", action_type |-> action_type, direction |-> direction,
              amount |-> amount, pre_pool |-> pool]

\* chaos_agent_action whose deposit is booked under the first agent's name.
chaos_agent_action_as_agent(action_type, direction, amount, amount_b) ==
    chaos_done(action_type, direction, amount,
               IF action_type = "liquidity"
               THEN provide_liquidity(pool, amount, amount_b, AgentName(0)).pool
               ELSE swap(pool, direction, amount).pool)

\* Simulation._chaos_agent_action once it acts; amount is reserve_a * volatility
\* (times 1.5 for massive_swap), amount_b is reserve_b * volatility.
chaos_agent_action(action_type, direction, amount, amount_b) ==
    chaos_done(action_type, direction, amount,
               IF action_type = "liquidity"
               THEN provide_liquidity(pool, amount, amount_b, "ChaosAgent").pool
               ELSE swap(pool, direction, amount).pool)

\* Lines 127-129: fired says random() <= 0.20.
Chaos(fired, action_type, direction) ==
    /\ pc = "chaos"
    /\ IF fired
       THEN /\ sim.ENABLE_CHAOS_AGENT = "on"
            /\ budget > 0
            /\ budget' = budget - 1
            /\ action_type = "liquidity" => direction = "a"
            /\ chaos_agent_action(action_type, direction,
                   RMul(RMul(pool.reserve_a, ChaosVolatility),
                        IF action_type = "massive_swap" THEN Rat(3, 2) ELSE R(1)),
                   RMul(pool.reserve_b, ChaosVolatility))
       ELSE /\ action_type = "swap" /\ direction = "a"
            /\ UNCHANGED <<pool, hist, budget>>
            /\ ev' = [op |-> "no_chaos"]
    /\ pc' = PhaseAfter(pc)
    /\ UNCHANGED <<agents, turn, idx, sim>>

\* action_type of line 134: decision.get('action', 'unknown').
ActionType(d) == IF d.action = "MISSING" THEN "unknown" ELSE d.action

\* agent_turn_track that counts a failed action as inaction.
agent_turn_track_failed_idle(d, persist, fail, r, g) ==
    LET bonus_saved == persist /\ g.bonus > 0
        saves == (IF bonus_saved THEN 1 ELSE 0) + (IF persist THEN 1 ELSE 0)
        tracked == IF ActionType(d) = "do_nothing" \/ ~r.success
                   THEN increment_inaction_counter(g.agent)
                   ELSE reset_inaction_counter(g.agent)
    IN  [agent |-> IF bonus_saved /\ fail = 1 THEN g.agent ELSE tracked,
         pool |-> r.pool, success |-> r.success, bonus |-> g.bonus,
         exc |-> IF fail > 0 THEN "PersistenceError" ELSE "none",
         possible |-> fail <= saves]

\* Lines 148-157 after the bonus g was granted: the inaction counter, then
\* _save_action.  fail is the number of the persistence call that raises.
agent_turn_track(d, persist, fail, r, g) ==
    LET bonus_saved == persist /\ g.bonus > 0
        saves == (IF bonus_saved THEN 1 ELSE 0) + (IF persist THEN 1 ELSE 0)
        tracked == IF ActionType(d) = "do_nothing" THEN increment_inaction_counter(g.agent)
                   ELSE reset_inaction_counter(g.agent)
    IN  [agent |-> IF bonus_saved /\ fail = 1 THEN g.agent ELSE tracked,
         pool |-> r.pool, success |-> r.success, bonus |-> g.bonus,
         exc |-> IF fail > 0 THEN "PersistenceError" ELSE "none",
         possible |-> fail <= saves]

\* Lines 144-145 after execute_action returned r (or raised r.exc).
agent_turn_bonus(d, t, persist, fail, r) ==
    IF r.exc # "none"
    THEN [agent |-> r.agent, pool |-> r.pool, success |-> FALSE, bonus |-> 0,
          exc |-> r.exc, possible |-> fail = 0]
    ELSE agent_turn_track(d, persist, fail, r,
                          IF r.success /\ ActionType(d) # "do_nothing"
                          THEN grant_action_bonus(r.agent, ActionType(d), t)
                          ELSE [agent |-> r.agent, bonus |-> 0])

\* Lines 137-157 for agent a (its _last_profit already set) and decision d:
\* an empty dict is falsy, so lines 141-153 are skipped for it.
agent_turn(a, p, d, t, persist, fail) ==
    IF d.empty
    THEN [agent |-> a, pool |-> p, success |-> TRUE, bonus |-> 0,
          exc |-> IF fail > 0 THEN "PersistenceError" ELSE "none",
          possible |-> fail = 0 \/ (persist /\ fail = 1)]
    ELSE agent_turn_bonus(d, t, persist, fail, execute_action(a, d, p))

\* agent_turn_done that keeps the action's effect on the pool from the
\* agents that follow.
agent_turn_done_apart(d, raised, o) ==
    /\ o.possible
    /\ PoolOk(o.pool) /\ AgentOk(o.agent)
    /\ pool' = pool
    /\ agents' = [agents EXCEPT ![idx] = o.agent]
    /\ ev' = [op |-> "agent", who |-> idx, decision |-> d, oracle_raised |-> raised,
              action_type |-> ActionType(d), success |-> o.success, bonus |-> o.bonus,
              exc |-> o.exc, pre |-> agents[idx], pre_pool |-> pool]
    /\ hist' = Append(hist, Mark(IF o.bonus > 0 THEN "act_bonus" ELSE "act", idx,
                                 o.agent.token_a))
    /\ IF o.exc # "none"
       THEN pc' = "raised" /\ idx' = idx
       ELSE IF idx + 1 < sim.num_agents
       THEN pc' = pc /\ idx' = idx + 1
       ELSE pc' = PhaseAfter(pc) /\ idx' = 0

\* The iteration's effect o on the state.
agent_turn_done(d, raised, o) ==
    /\ o.possible
    /\ PoolOk(o.pool) /\ AgentOk(o.agent)
    /\ pool' = o.pool
    /\ agents' = [agents EXCEPT ![idx] = o.agent]
    /\ ev' = [op |-> "agent", who |-> idx, decision |-> d, oracle_raised |-> raised,
              action_type |-> ActionType(d), success |-> o.success, bonus |-> o.bonus,
              exc |-> o.exc, pre |-> agents[idx], pre_pool |-> pool]
    /\ hist' = Append(hist, Mark(IF o.bonus > 0 THEN "act_bonus" ELSE "act", idx,
                                 o.agent.token_a))
    /\ IF o.exc # "none"
       THEN pc' = "raised" /\ idx' = idx
       ELSE IF idx + 1 < sim.num_agents
       THEN pc' = pc /\ idx' = idx + 1
       ELSE pc' = PhaseAfter(pc) /\ idx' = 0

\* One iteration of the loop of lines 132-157 for agent idx.  raised says
\* agent.decide raised (then d is what _agent_decide substitutes); fail is
\* the number of the persistence call of this iteration that raises.
AgentStep(d, raised, fail) ==
    /\ pc = "agents"
    /\ raised <=> d = ErrorDecision
    /\ d \in ExtraDecisions => budget > 0
    /\ fail > 0 => sim.supabase
    /\ agent_turn_done(d, raised,
           agent_turn([agents[idx] EXCEPT !.last_profit = calculate_profit(agents[idx])],
                      pool, d, turn, sim.supabase, fail))
    /\ budget' = IF d \in ExtraDecisions THEN budget - 1 ELSE budget
    /\ UNCHANGED <<turn, sim>>

\* Lines 159-163: apply_boredom_penalty on every agent.
Boredom ==
    /\ pc = "boredom"
    /\ agents' = [i \in DOMAIN agents |-> apply_boredom_penalty(agents[i]).agent]
    /\ AgentsOk(agents')
    /\ hist' = hist \o [k \in 1..sim.num_agents |->
                            Mark("boredom", k - 1, apply_boredom_penalty(agents[k - 1]).penalty)]
    /\ ev' = [op |-> "boredom", pre |-> agents]
    /\ pc' = PhaseAfter(pc)
    /\ UNCHANGED <<pool, turn, idx, sim, budget>>

\* The effect r of a pass over the agents (phase ph) on the state; the
\* amounts logged are what the pass added to each agent's token_a.
pass_done(ph, r) ==
    /\ AgentsOk(r.agents)
    /\ agents' = r.agents
    /\ hist' = hist \o [k \in 1..sim.num_agents |->
                           Mark(ph, k - 1, RSub(r.agents[k - 1].token_a, agents[k - 1].token_a))]
    /\ ev' = [op |-> ph, pre |-> agents, exc |-> r.exc]
    /\ pc' = IF r.exc # "none" THEN "raised" ELSE PhaseAfter(pc)

\* Line 166: _process_alliances.
Alliances ==
    /\ pc = "alliances"
    /\ pass_done("alliances", process_alliances(agents, 0, 1, sim.num_agents, sim.supabase))
    /\ UNCHANGED <<pool, turn, idx, sim, budget>>

\* Line 169: _grant_profit_bonuses.
ProfitBonus(fail) ==
    /\ pc = "profit_bonus"
    /\ fail > 0 => sim.supabase
    /\ fail > 0 => grant_profit_bonuses(agents, 0, sim.num_agents, sim.supabase, fail).exc # "none"
    /\ pass_done("profit_bonus",
                 grant_profit_bonuses(agents, 0, sim.num_agents, sim.supabase, fail))
    /\ UNCHANGED <<pool, turn, idx, sim, budget>>

\* Lines 171-173 and the loop header: the snapshot, then the next turn.
SaveStates(fail) ==
    /\ pc = "save_states"
    /\ fail => sim.supabase
    /\ IF fail
       THEN /\ pc' = "raised"
            /\ ev' = Raise("PersistenceError", "_save_states")
            /\ UNCHANGED <<turn, hist>>
       ELSE /\ turn' = turn + 1
            /\ pc' = IF turn + 1 < sim.turns_per_run THEN "market_maker" ELSE "finish"
            /\ ev' = [op |-> "save_states"]
            /\ hist' = <<>>
    /\ UNCHANGED <<pool, agents, idx, sim, budget>>

\* run() returns metrics.
run_returns(metrics) ==
    /\ MetricsOk(metrics)
    /\ pc' = "returned"
    /\ ev' = [op |-> "return", metrics |-> metrics]
    /\ sim' = [sim EXCEPT !.current_run_number = sim.current_run_number + 1]

\* Lines 175-210: the metrics, their persistence, the summary (its
\* failure is caught), update_learning (its failure is caught), return.
Finish(fail) ==
    /\ pc = "finish"
    /\ fail => sim.supabase
    /\ IF fail
       THEN /\ pc' = "raised"
            /\ ev' = Raise("PersistenceError", "save_metrics")
            /\ sim' = sim
       ELSE run_returns(calculate_metrics(agents, sim.num_agents, pool))
    /\ UNCHANGED <<pool, agents, turn, idx, hist, budget>>

Next ==
    \/ \E fail \in BOOLEAN : RunStart(fail)
    \/ \E direction \in {"buy_a", "buy_b"} : MarketMaker(direction)
    \/ \E fired \in BOOLEAN, shock_pct \in ShockPcts \cup {Zero} : PriceShock(fired, shock_pct)
    \/ \E fired \in BOOLEAN, action_type \in {"swap", "liquidity", "massive_swap"},
          direction \in {"a", "b"} : Chaos(fired, action_type, direction)
    \/ \E d \in CoreDecisions(idx, sim.num_agents) \cup ExtraDecisions \cup {ErrorDecision},
          raised \in BOOLEAN, fail \in 0..2 : AgentStep(d, raised, fail)
    \/ Boredom
    \/ Alliances
    \/ \E fail \in 0..NumAgents : ProfitBonus(fail)
    \/ \E fail \in BOOLEAN : SaveStates(fail)
    \/ \E fail \in BOOLEAN : Finish(fail)

Spec == Init /\ [][Next]_vars

(***************************************************************************)
(* The run of test_simulation's shape (3 agents, 3 turns) with an oracle   *)
(* that answers do_nothing, or raises, every time.                         *)
(***************************************************************************)
IdleAgents == 3

IdleTurns == 3

InitIdle ==
    /\ pool = NonePool
    /\ agents = NoAgents
    /\ pc = "constructed"
    /\ turn = 0
    /\ idx = 0
    /\ sim \in {Simulation(IdleAgents, IdleTurns, persist, chaos) :
                    persist \in BOOLEAN, chaos \in {"unset", "on"}}
    /\ ev = NoEvent
    /\ hist = <<>>
    /\ budget = MaxExtras

NextIdle ==
    \/ \E fail \in BOOLEAN : RunStart(fail)
    \/ \E direction \in {"buy_a", "buy_b"} : MarketMaker(direction)
    \/ \E fired \in BOOLEAN, shock_pct \in ShockPcts \cup {Zero} : PriceShock(fired, shock_pct)
    \/ \E fired \in BOOLEAN, action_type \in {"swap", "liquidity", "massive_swap"},
          direction \in {"a", "b"} : Chaos(fired, action_type, direction)
    \/ \E d \in {Decision("do_nothing", NoPayload), ErrorDecision},
          raised \in BOOLEAN, fail \in 0..2 : AgentStep(d, raised, fail)
    \/ Boredom
    \/ Alliances
    \/ \E fail \in 0..IdleAgents : ProfitBonus(fail)
    \/ \E fail \in BOOLEAN : SaveStates(fail)
    \/ \E fail \in BOOLEAN : Finish(fail)

SpecIdle == InitIdle /\ [][NextIdle]_vars

(***************************************************************************)
(* The pool on its own: any caller, any arguments.                         *)
(***************************************************************************)
InitReserves == {R(POOL_RESERVE), Rat(5, 2)}

SwapAmounts == {R(-5), Zero, R(100), R(100000)}

\* (amount_a, amount_b) of a deposit; the products are squares, so that the
\* geometric mean of a seeding deposit is exact.
LiquidityAmounts ==
    {<<R(-1), R(4)>>, <<R(4), Zero>>, <<R(4), R(4)>>, <<R(4), R(100)>>,
     <<R(100), R(100)>>, <<R(100), R(4)>>}

LpAmounts == {R(-1), Zero, R(4), R(100), R(200)}

PoolActors == {"Agent_0", "Agent_1"}

\* What the previous swap paid out, to be swapped back.
LastOutput == IF ev.op = "swap" /\ RPos(ev.result.out) THEN {ev.result.out} ELSE {}

InitPool ==
    /\ pool \in {Pool(ra, rb) : ra \in InitReserves, rb \in InitReserves}
    /\ agents = NoAgents
    /\ pc = "pool"
    /\ turn = 0
    /\ idx = 0
    /\ sim = Simulation(0, 0, FALSE, "unset")
    /\ ev = NoEvent
    /\ hist = <<>>
    /\ budget = MaxPoolOps

\* The call's result r becomes the pool; ev keeps the call and what it
\* returned, hist the call before it.
pool_call_done(call, r) ==
    /\ PoolOk(r.pool)
    /\ pool' = r.pool
    /\ ev' = [call EXCEPT !.result = r, !.exc = r.exc]
    /\ hist' = <<ev>>
    /\ budget' = budget - 1
    /\ UNCHANGED <<agents, pc, turn, idx, sim>>

PoolCall(op, x, y, agent_name) ==
    [op |-> op, x |-> x, y |-> y, agent_name |-> agent_name, pre |-> pool,
     result |-> NoEvent, exc |-> "none"]

PoolSwap(token_in, amount_in, agent_name) ==
    /\ pc = "pool"
    /\ budget > 0
    /\ Ok(swap(pool, token_in, amount_in).out)
    /\ pool_call_done(PoolCall("swap", token_in, amount_in, agent_name),
                      swap(pool, token_in, amount_in))

PoolProvide(amount_a, amount_b, agent_name) ==
    /\ pc = "pool"
    /\ budget > 0
    /\ Ok(provide_liquidity(pool, amount_a, amount_b, agent_name).lp)
    /\ pool_call_done(PoolCall("provide_liquidity", amount_a, amount_b, agent_name),
                      provide_liquidity(pool, amount_a, amount_b, agent_name))

PoolWithdraw(lp_tokens, agent_name) ==
    /\ pc = "pool"
    /\ budget > 0
    /\ pool_call_done(PoolCall("withdraw_liquidity", lp_tokens, Zero, agent_name),
                      withdraw_liquidity(pool, lp_tokens, agent_name))

NextPool ==
    \/ \E t \in {"a", "b"}, x \in SwapAmounts \cup LastOutput, n \in PoolActors :
            PoolSwap(t, x, n)
    \/ \E x \in LiquidityAmounts, n \in PoolActors : PoolProvide(x[1], x[2], n)
    \/ \E x \in LpAmounts, n \in PoolActors : PoolWithdraw(x, n)

SpecPool == InitPool /\ [][NextPool]_vars

(***************************************************************************)
(* Alliances on their own: any agent proposes to any other, any number of  *)
(* times, between two runs of _process_alliances.                          *)
(***************************************************************************)
AllianceAgents == 3

MaxMatches == 4

\* alliance_proposals[partner] of agent i, 0 when absent.
Proposals(as, i, j) == Get(as[i].alliance_proposals, AgentName(j), 0)

InitAlliances ==
    /\ pool = NonePool
    /\ agents = [i \in 0..AllianceAgents - 1 |-> Agent(AgentName(i))]
    /\ pc = "alliance_calls"
    /\ turn = 0
    /\ idx = 0
    /\ sim = Simulation(AllianceAgents, 0, FALSE, "unset")
    /\ ev = NoEvent
    /\ hist = <<>>
    /\ budget = 0

\* What _execute_alliance returned (r) becomes agent i and the pool.
propose_done(i, name, r) ==
    /\ agents' = [agents EXCEPT ![i] = r.agent]
    /\ pool' = r.pool
    /\ ev' = [op |-> "propose", who |-> i, agent_name |-> name, pre |-> agents,
              success |-> r.success, exc |-> r.exc]
    /\ UNCHANGED <<pc, turn, idx, sim, hist, budget>>

\* Agent i runs _execute_alliance with payload {"agent_name": name} (or
\* with a payload without that key, for name = "").
CallPropose(i, name) ==
    /\ pc = "alliance_calls"
    /\ propose_done(i, name,
                    execute_alliance(agents[i], Payload("a", Zero, Zero, Zero, name), pool))

\* _process_alliances runs (without persistence) over the agents.
CallResolve ==
    /\ pc = "alliance_calls"
    /\ \A i, j \in DOMAIN agents : Proposals(agents, i, j) < MaxMatches
    /\ agents' = process_alliances(agents, 0, 1, sim.num_agents, FALSE).agents
    /\ ev' = [op |-> "alliances", who |-> -1, agent_name |-> "", pre |-> agents, exc |-> "none"]
    /\ UNCHANGED <<pool, pc, turn, idx, sim, hist, budget>>

NextAlliances ==
    \/ \E i \in 0..AllianceAgents - 1, j \in 0..AllianceAgents - 1 :
            i # j /\ CallPropose(i, AgentName(j))
    \/ CallPropose(0, AgentName(0))
    \/ \E i \in 0..AllianceAgents - 1 : CallPropose(i, "")
    \/ CallResolve

SpecAlliances == InitAlliances /\ [][NextAlliances]_vars

(***************************************************************************)
(* The run without persistence and with the chaos actor enabled, where     *)
(* agents do nothing, swap 50 of either token or deposit (50, 50), so that *)
(* several random events and a trade can fall into one run.                *)
(***************************************************************************)
\* Random events and trades in one such run.
MaxVolatile == 2

VolatileDecisions ==
    {Decision("do_nothing", NoPayload),
     Decision("swap", Payload("a", R(50), Zero, Zero, "")),
     Decision("swap", Payload("b", R(50), Zero, Zero, "")),
     Decision("provide_liquidity", Payload("a", Zero, R(50), R(50), ""))}

InitVolatile ==
    /\ pool = NonePool
    /\ agents = NoAgents
    /\ pc = "constructed"
    /\ turn = 0
    /\ idx = 0
    /\ sim = Simulation(NumAgents, TurnsPerRun, FALSE, "on")
    /\ ev = NoEvent
    /\ hist = <<>>
    /\ budget = MaxVolatile

NextVolatile ==
    \/ RunStart(FALSE)
    \/ \E direction \in {"buy_a", "buy_b"} : MarketMaker(direction)
    \/ \E fired \in BOOLEAN, shock_pct \in ShockPcts \cup {Zero} : PriceShock(fired, shock_pct)
    \/ \E fired \in BOOLEAN, action_type \in {"swap", "liquidity", "massive_swap"},
          direction \in {"a", "b"} : Chaos(fired, action_type, direction)
    \/ \E d \in VolatileDecisions : AgentStep(d, FALSE, 0)
    \/ Boredom
    \/ Alliances
    \/ ProfitBonus(0)
    \/ SaveStates(FALSE)
    \/ Finish(FALSE)

SpecVolatile == InitVolatile /\ [][NextVolatile]_vars

(***************************************************************************)
(* The POST /api/runs handler (web/app.py, create_run), request after      *)
(* request.  Here hist is the persisted table of runs (a run's id is its   *)
(* position), sim the Simulation object of the current request with its    *)
(* current_run_id (0: None), and ev the handler's frame: its local run_id  *)
(* and the response.  The handler never sets ENABLE_CHAOS_AGENT, so run()  *)
(* raises AttributeError at line 78, right after initialize_run.           *)
(***************************************************************************)
\* Requests served in one behaviour.
MaxRequests == 3

\* num_agents and turns_per_run of a request.
RequestSizes == {2, 5}

RequestTurns == {3, 10}

WebSimulation(n, t, persist) ==
    [num_agents |-> n, turns_per_run |-> t, supabase |-> persist,
     current_run_id |-> 0, current_run_number |-> 0]

InitWeb ==
    /\ pool = NonePool
    /\ agents = NoAgents
    /\ pc = "web_idle"
    /\ turn = 0
    /\ idx = 0
    /\ sim \in {WebSimulation(0, 0, persist) : persist \in BOOLEAN}
    /\ ev = NoEvent
    /\ hist = <<>>
    /\ budget = MaxRequests

\* SupabaseClient.update_run_status on the table of runs.
update_run_status(runs, run_id, status) == [runs EXCEPT ![run_id].status = status]

\* The except clauses of create_run (lines 146-176) for the exception exc:
\* the table afterwards; update_fails says update_run_status raised (which
\* the bare except swallows).
handle_failure(runs, run_id, persist, exc, update_fails) ==
    IF run_id # 0 /\ persist /\ ~update_fails
    THEN update_run_status(runs, run_id, IF exc = "TimeoutError" THEN "timeout" ELSE "failed")
    ELSE runs

\* The handler answers with the HTTPException of lines 157 and 176.
web_failed(exc, update_fails) ==
    /\ hist' = handle_failure(hist, ev.run_id, sim.supabase, exc, update_fails)
    /\ ev' = [ev EXCEPT !.exc = exc,
                         !.status_code = IF exc = "TimeoutError" THEN 504 ELSE 500]
    /\ pc' = "web_responded"

\* Lines 119-126: the Simulation is constructed and run_id is read from it.
WebRequest(n, t) ==
    /\ pc \in {"web_idle", "web_responded"}
    /\ budget > 0
    /\ budget' = budget - 1
    /\ sim' = WebSimulation(n, t, sim.supabase)
    /\ ev' = [op |-> "create_run", run_id |-> WebSimulation(n, t, sim.supabase).current_run_id,
              exc |-> "none", status_code |-> 0]
    /\ pc' = "web_constructed"
    /\ UNCHANGED <<pool, agents, turn, idx, hist>>

\* Line 128 into Simulation.initialize_run (lines 53-69); exc is what
\* get_next_run_number or create_run raises ("none": nothing).
WebInitializeRun(exc, update_fails) ==
    /\ pc = "web_constructed"
    /\ exc # "none" => sim.supabase
    /\ update_fails => exc # "none"
    /\ IF exc # "none"
       THEN web_failed(exc, update_fails) /\ sim' = sim
       ELSE /\ hist' = IF sim.supabase
                       THEN Append(hist, [run_number |-> Len(hist) + 1, status |-> "running"])
                       ELSE hist
            /\ sim' = [sim EXCEPT !.current_run_number = Len(hist) + 1,
                                  !.current_run_id = IF sim.supabase THEN Len(hist) + 1 ELSE 0]
            /\ pc' = "web_initialized"
            /\ ev' = ev
    /\ UNCHANGED <<pool, agents, turn, idx, budget>>

\* Simulation.run, line 78: AttributeError, caught by line 159.
WebRunRaises(update_fails) ==
    /\ pc = "web_initialized"
    /\ web_failed("AttributeError", update_fails)
    /\ UNCHANGED <<pool, agents, turn, idx, sim, budget>>

NextWeb ==
    \/ \E n \in RequestSizes, t \in RequestTurns : WebRequest(n, t)
    \/ \E exc \in {"none", "TimeoutError", "PersistenceError"}, update_fails \in BOOLEAN :
            WebInitializeRun(exc, update_fails)
    \/ \E update_fails \in BOOLEAN : WebRunRaises(update_fails)

SpecWeb == InitWeb /\ [][NextWeb]_vars

(***************************************************************************)
(* Analyzer.gini_coefficient applied to a vector of values.                *)
(***************************************************************************)
\* Longest vector handed to gini_coefficient.
MaxValues == 3

\* Entries of the vectors: losses, nothing, gains.
GiniInputs == {R(-10), R(-1), Zero, Rat(1, 2), R(3), R(23)}

GiniVectors == UNION {[1..len -> GiniInputs] : len \in 0..MaxValues}

InitGini ==
    /\ pool = NonePool
    /\ agents = NoAgents
    /\ pc = "gini_call"
    /\ turn = 0
    /\ idx = 0
    /\ sim = Simulation(0, 0, FALSE, "unset")
    /\ ev = NoEvent
    /\ hist \in GiniVectors
    /\ budget = 0

\* Analyzer.gini_coefficient(hist) returns.
CallGini ==
    /\ pc = "gini_call"
    /\ pc' = "gini_returned"
    /\ ev' = [op |-> "gini_coefficient", values |-> hist, returned |-> gini_coefficient(hist)]
    /\ UNCHANGED <<pool, agents, turn, idx, sim, hist, budget>>

NextGini == CallGini

SpecGini == InitGini /\ [][NextGini]_vars

(***************************************************************************)
(* One agent on its own: its inaction counter goes up and down and the     *)
(* boredom penalty is applied, in any order.                               *)
(***************************************************************************)
\* Calls on the agent in one behaviour.
MaxAgentCalls == 7

InitBoredom ==
    /\ pool = NonePool
    /\ agents = [i \in {0} |-> Agent(AgentName(0))]
    /\ pc = "agent_calls"
    /\ turn = 0
    /\ idx = 0
    /\ sim = Simulation(1, 0, FALSE, "unset")
    /\ ev = NoEvent
    /\ hist = <<>>
    /\ budget = MaxAgentCalls

\* The call left the agent as a and returned ret.
agent_call_done(op, a, ret) ==
    /\ pc = "agent_calls"
    /\ budget > 0
    /\ AgentOk(a)
    /\ agents' = [agents EXCEPT ![0] = a]
    /\ ev' = [op |-> op, pre |-> agents[0], returned |-> ret]
    /\ budget' = budget - 1
    /\ UNCHANGED <<pool, pc, turn, idx, sim, hist>>

CallIncrement ==
    agent_call_done("increment_inaction_counter", increment_inaction_counter(agents[0]), Zero)

CallReset ==
    agent_call_done("reset_inaction_counter", reset_inaction_counter(agents[0]), Zero)

CallPenalty ==
    agent_call_done("apply_boredom_penalty", apply_boredom_penalty(agents[0]).agent,
                    apply_boredom_penalty(agents[0]).penalty)

NextBoredom == CallIncrement \/ CallReset \/ CallPenalty

SpecBoredom == InitBoredom /\ [][NextBoredom]_vars

(***************************************************************************)
(* Claims about the pool, checked under SpecPool.                          *)
(***************************************************************************)
\* reserve_a * reserve_b of a pool.
Product(p) == RMul(p.reserve_a, p.reserve_b)

\* The last call was a swap with amount_in > 0 on positive reserves.
ValidSwapDone ==
    /\ ev.op = "swap"
    /\ RPos(ev.y)
    /\ RPos(ev.pre.reserve_a) /\ RPos(ev.pre.reserve_b)

\* C1: after every Pool.swap with amount_in > 0 (either direction, any
\* actor) on a pool with positive reserves, reserve_a * reserve_b is
\* greater than or equal to its value before that swap.
C1_SwapKeepsProduct ==
    ValidSwapDone =>
        /\ Ok(Product(ev.pre)) /\ Ok(Product(pool))
        /\ RLe(Product(ev.pre), Product(pool))

\* C1 witness: a second valid swap in a row, in the opposite direction of
\* the first, has left the product strictly larger than it found it.
C1_Witness ==
    /\ ValidSwapDone
    /\ budget <= MaxPoolOps - 2
    /\ ev.pre.reserve_a # ev.pre.reserve_b
    /\ RLt(Product(ev.pre), Product(pool))

\* C2: starting from positive reserves, after any sequence of swap,
\* provide_liquidity and withdraw_liquidity calls (any arguments, any
\* actors) both reserve_a and reserve_b are strictly greater than 0.
C2_ReservesStayPositive ==
    pc = "pool" => RPos(pool.reserve_a) /\ RPos(pool.reserve_b)

\* C11: Pool operations called with non-positive amounts are no-ops that
\* return zero and never raise: swap with amount_in <= 0 returns (0, 0),
\* provide_liquidity with amount_a <= 0 or amount_b <= 0 returns 0,
\* withdraw_liquidity with lp_tokens <= 0 or with a zero total LP supply
\* returns (0, 0); reserves and liquidity_providers are as they were.
C11_NonPositiveIsNoOp ==
    /\ (ev.op = "swap" /\ ~RPos(ev.y)) =>
            /\ ev.result.out = Zero /\ ev.result.fee = Zero
            /\ ev.exc = "none" /\ pool = ev.pre
    /\ (ev.op = "provide_liquidity" /\ (~RPos(ev.x) \/ ~RPos(ev.y))) =>
            /\ ev.result.lp = Zero
            /\ ev.exc = "none" /\ pool = ev.pre
    /\ (ev.op = "withdraw_liquidity" /\ (~RPos(ev.x) \/ total_liquidity(ev.pre) = Zero)) =>
            /\ ev.result.amount_a = Zero /\ ev.result.amount_b = Zero
            /\ ev.exc = "none" /\ pool = ev.pre

\* C11 witness: right after another withdrawal, an actor without an entry
\* withdraws a positive amount from a pool whose recorded LP balances sum
\* to zero; the call returned (0, 0) and left the pool alone.
C11_Witness ==
    /\ ev.op = "withdraw_liquidity" /\ RPos(ev.x)
    /\ ev.pre.liquidity_providers # EmptyMap
    /\ ev.agent_name \notin DOMAIN ev.pre.liquidity_providers
    /\ ev.result.amount_a = Zero /\ ev.exc = "none" /\ pool = ev.pre
    /\ hist[1].op = "withdraw_liquidity"

\* The reserve a swap of token t pays into, and the one it pays out of.
ReserveIn(p, t) == IF t = "a" THEN p.reserve_a ELSE p.reserve_b

ReserveOut(p, t) == IF t = "a" THEN p.reserve_b ELSE p.reserve_a

\* reserve_out * amount_in / (reserve_in + amount_in) on the reserves the
\* last swap found.
GrossOf(p, t, x) == RDiv(RMul(ReserveOut(p, t), x), RAdd(ReserveIn(p, t), x))

\* C12: for swap with amount_in > 0 on positive reserves, gross =
\* reserve_out * amount_in / (reserve_in + amount_in) on the pre-swap
\* reserves, fee = gross * SWAP_FEE, reserve_in grows by amount_in,
\* reserve_out shrinks by gross - fee, and the amount returned is exactly
\* the amount by which reserve_out shrank.
C12_SwapArithmetic ==
    ValidSwapDone =>
        /\ ev.exc = "none"
        /\ ev.result.fee = RMul(GrossOf(ev.pre, ev.x, ev.y), SWAP_FEE)
        /\ ReserveIn(pool, ev.x) = RAdd(ReserveIn(ev.pre, ev.x), ev.y)
        /\ ReserveOut(pool, ev.x) =
               RSub(ReserveOut(ev.pre, ev.x),
                    RSub(GrossOf(ev.pre, ev.x, ev.y), ev.result.fee))
        /\ ev.result.out = RSub(ReserveOut(ev.pre, ev.x), ReserveOut(pool, ev.x))
        /\ pool.liquidity_providers = ev.pre.liquidity_providers

\* C12 witness: 100 of token B went into a pool of 1000 A and 5/2 B; the
\* caller received what left reserve_a, the fee of 3/4100 stayed behind.
C12_Witness ==
    /\ ValidSwapDone
    /\ ev.x = "b" /\ ev.y = R(100)
    /\ ev.pre.reserve_a = R(POOL_RESERVE) /\ ev.pre.reserve_b = Rat(5, 2)
    /\ pool.reserve_b = Rat(205, 2)
    /\ RPos(ev.result.fee)
    /\ ev.result.out = RSub(ev.pre.reserve_a, pool.reserve_a)

\* The last two calls swapped X > 0 of token A for B on positive reserves
\* and then the whole output back for A.
RoundTripDone ==
    /\ ev.op = "swap" /\ ev.x = "b"
    /\ hist # <<>>
    /\ hist[1].op = "swap" /\ hist[1].x = "a" /\ RPos(hist[1].y)
    /\ RPos(hist[1].pre.reserve_a) /\ RPos(hist[1].pre.reserve_b)
    /\ ev.y = hist[1].result.out

\* C13: for any pool with positive reserves and any X > 0, swapping X of
\* token A for B and then at once the whole B output back for A returns
\* an amount of A that is never greater than X.
C13_RoundTripLoses ==
    RoundTripDone => Ok(ev.result.out) /\ RLe(ev.result.out, hist[1].y)

\* C13 witness: a round trip on a pool with unequal reserves returned a
\* positive amount of A, strictly less than what went in.
C13_Witness ==
    /\ RoundTripDone
    /\ hist[1].pre.reserve_a # hist[1].pre.reserve_b
    /\ RPos(ev.result.out)
    /\ RLt(ev.result.out, hist[1].y)

\* The last call was provide_liquidity with both amounts > 0.
ProvideDone == ev.op = "provide_liquidity" /\ RPos(ev.x) /\ RPos(ev.y)

\* What the claim says a deposit of (x, y) into pool p mints.
MintedFor(p, x, y) ==
    IF total_liquidity(p) = Zero THEN RSqrt(RMul(x, y))
    ELSE RMul(RMin(RDiv(x, p.reserve_a), RDiv(y, p.reserve_b)),
              RAdd(p.reserve_a, p.reserve_b))

\* The deposit's effect on reserves and LP balances, for a minted amount lp.
Deposited(lp) ==
    /\ pool.reserve_a = RAdd(ev.pre.reserve_a, ev.x)
    /\ pool.reserve_b = RAdd(ev.pre.reserve_b, ev.y)
    /\ Get(pool.liquidity_providers, ev.agent_name, Zero) =
           RAdd(Get(ev.pre.liquidity_providers, ev.agent_name, Zero), lp)
    /\ total_liquidity(pool) = RAdd(total_liquidity(ev.pre), lp)

\* C14: provide_liquidity with both amounts > 0 mints sqrt(amount_a *
\* amount_b) LP tokens when the total LP supply is zero (so (100, 100)
\* mints exactly 100, whatever the reserves), and otherwise mints
\* min(amount_a / reserve_a, amount_b / reserve_b) * (reserve_a +
\* reserve_b) on the reserves before the deposit; either way both full
\* amounts join the reserves and the actor's LP balance and the total LP
\* supply grow by exactly the minted amount.
C14_MintedLp ==
    ProvideDone =>
        /\ ev.exc = "none"
        /\ ev.result.lp = MintedFor(ev.pre, ev.x, ev.y)
        /\ (total_liquidity(ev.pre) = Zero /\ ev.x = R(100) /\ ev.y = R(100))
                => ev.result.lp = R(100)
        /\ Deposited(ev.result.lp)

\* C14 without the case the code fails on: a deposit into a pool with LP
\* supply and a zero reserve.
C14_MintedLpDefined ==
    (ProvideDone /\ ev.exc # "ZeroDivisionError") => C14_MintedLp

\* The last call was withdraw_liquidity with lp_tokens > 0 on a positive
\* total LP supply.
WithdrawDone ==
    ev.op = "withdraw_liquidity" /\ RPos(ev.x) /\ RPos(total_liquidity(ev.pre))

\* C15: withdraw_liquidity(lp_tokens, actor) with lp_tokens > 0 and total
\* LP supply > 0 returns (reserve_a * lp_tokens / total_lp, reserve_b *
\* lp_tokens / total_lp), takes those amounts out of the reserves and
\* lp_tokens off the actor's LP balance, for every actor (one holding
\* fewer shares than lp_tokens ends up negative), and never raises.
C15_WithdrawProportional ==
    WithdrawDone =>
        /\ ev.exc = "none"
        /\ ev.result.amount_a =
               RMul(ev.pre.reserve_a, RDiv(ev.x, total_liquidity(ev.pre)))
        /\ ev.result.amount_b =
               RMul(ev.pre.reserve_b, RDiv(ev.x, total_liquidity(ev.pre)))
        /\ pool.reserve_a = RSub(ev.pre.reserve_a, ev.result.amount_a)
        /\ pool.reserve_b = RSub(ev.pre.reserve_b, ev.result.amount_b)
        /\ Get(pool.liquidity_providers, ev.agent_name, Zero) =
               RSub(Get(ev.pre.liquidity_providers, ev.agent_name, Zero), ev.x)

\* C15 for the actors that have an entry in liquidity_providers.
C15_WithdrawByHolder ==
    (WithdrawDone /\ ev.agent_name \in DOMAIN ev.pre.liquidity_providers)
        => C15_WithdrawProportional

(***************************************************************************)
(* Claims about the turn loop, checked under Spec.                         *)
(***************************************************************************)
\* Where a phase stands in the turn.
PhaseRank(ph) ==
    CASE ph = "market_maker" -> 0
      [] ph = "price_shock" -> 1
      [] ph = "chaos" -> 2
      [] ph \in {"act", "act_bonus"} -> 3
      [] ph = "boredom" -> 4
      [] ph = "alliances" -> 5
      [] ph = "profit_bonus" -> 6

\* This turn's entry of hist for agent k in one of the phases phs (an entry
\* with no amount when that phase has not come yet).
MarkOf(phs, k) ==
    IF \E p \in DOMAIN hist : hist[p].ph \in phs /\ hist[p].who = k
    THEN hist[CHOOSE p \in DOMAIN hist : hist[p].ph \in phs /\ hist[p].who = k]
    ELSE Mark("missing", k, NaR)

Acted(k) == MarkOf({"act", "act_bonus"}, k)

\* Agent k's token_a when the profit-bonus pass starts, from what the
\* earlier phases of the turn logged: the balance after its action and
\* bonus, less its boredom penalty, plus its alliance credit.
BalanceAtProfitPass(k) ==
    RAdd(RSub(Acted(k).amt, MarkOf({"boredom"}, k).amt), MarkOf({"alliances"}, k).amt)

\* token_a + token_b - 200 for a token_a of x and agent k's token_b.
ProfitWith(x, k) == RSub(RAdd(x, agents[k].token_b), R(INITIAL_TOKENS * 2))

\* The profit-bonus pass has just run to its end.
ProfitPassDone == ev.op = "profit_bonus" /\ ev.exc = "none"

\* C3: in every turn the phases come in the order agent actions (each
\* with its action bonus, before the next agent acts), boredom pass,
\* alliance resolution, profit-bonus pass; so the profit > 0 test of the
\* profit-bonus pass sees balances that include the turn's boredom
\* penalties and alliance bonuses.
C3_PhaseOrder ==
    /\ \A p, q \in DOMAIN hist :
            p < q => /\ PhaseRank(hist[p].ph) <= PhaseRank(hist[q].ph)
                     /\ (PhaseRank(hist[p].ph) = 3 /\ PhaseRank(hist[q].ph) = 3)
                            => hist[p].who < hist[q].who
    /\ (ev.op = "agent" /\ ev.exc = "none" /\ ~ev.decision.empty) =>
            /\ Acted(ev.who).ph = IF ev.bonus > 0 THEN "act_bonus" ELSE "act"
            /\ agents[ev.who].token_a =
                   RAdd(execute_action(ev.pre, ev.decision, ev.pre_pool).agent.token_a,
                        R(ev.bonus))
    /\ ProfitPassDone =>
            \A k \in 0..sim.num_agents - 1 :
                /\ ev.pre[k].token_a = BalanceAtProfitPass(k)
                /\ MarkOf({"profit_bonus"}, k).amt =
                       IF RPos(ProfitWith(BalanceAtProfitPass(k), k))
                       THEN R(PROFIT_BONUS) ELSE Zero

\* C3 witness: the profit-bonus pass has run and passed over an agent whose
\* profit was positive after its action and not positive after the boredom
\* penalty of the same turn.
C3_Witness ==
    /\ ProfitPassDone
    /\ \E k \in 0..sim.num_agents - 1 :
            /\ RPos(MarkOf({"boredom"}, k).amt)
            /\ RPos(ProfitWith(Acted(k).amt, k))
            /\ ~RPos(ProfitWith(BalanceAtProfitPass(k), k))
            /\ agents[k].token_a = ev.pre[k].token_a

\* Agents i and j each hold an alliance entry for the other.
Paired(i, j) ==
    /\ i # j
    /\ AgentName(j) \in DOMAIN agents[i].alliances
    /\ AgentName(i) \in DOMAIN agents[j].alliances

\* Turn 0 has run up to the end of its profit-bonus pass.
TurnZeroDone == turn = 0 /\ ProfitPassDone

\* Agent i's token_a exceeds its endowment by exactly x and its alliance
\* with j is marked 'success'.
GainedAllied(i, j, x) ==
    /\ agents[i].token_a = R(INITIAL_TOKENS + x)
    /\ agents[i].alliances[AgentName(j)] = "success"

C7_RunReturns ==
    ~sim.supabase =>
        /\ pc # "raised"
        /\ pc = "returned" => turn = sim.turns_per_run

\* The last step was an agent's iteration whose oracle call raised.
OracleRaised == ev.op = "agent" /\ ev.oracle_raised

\* C8: when the oracle call for an agent raises, the engine substitutes a
\* do_nothing decision with an error reasoning, counts the agent as
\* inactive for the turn (consecutive_inaction + 1, balances and pool
\* untouched) and goes on to the next agent or, after the last agent, to
\* the boredom pass; only a failing persistence call can stop the run there.
C8_OracleFailureRecovered ==
    OracleRaised =>
        /\ ev.decision.action = "do_nothing"
        /\ ev.decision.reasoning # ""
        /\ agents[ev.who].consecutive_inaction = ev.pre.consecutive_inaction + 1
        /\ agents[ev.who].token_a = ev.pre.token_a
        /\ agents[ev.who].token_b = ev.pre.token_b
        /\ pool = ev.pre_pool
        /\ ev.exc \in {"none", "PersistenceError"}
        /\ ev.exc = "none" =>
                IF ev.who + 1 < sim.num_agents
                THEN pc = "agents" /\ idx = ev.who + 1
                ELSE pc = "boredom"

\* C8 witness: the oracle raised for agent 0 in the last turn while it was
\* already idle; the run goes on with agent 1.
C8_Witness ==
    /\ OracleRaised
    /\ ev.who = 0
    /\ turn = sim.turns_per_run - 1
    /\ ev.pre.consecutive_inaction > 0
    /\ agents[0].consecutive_inaction = ev.pre.consecutive_inaction + 1
    /\ pc = "agents" /\ idx = 1

\* What the iteration of the last step would have left of its agent had
\* the decision been do_nothing.
AsDoNothing ==
    agent_turn([ev.pre EXCEPT !.last_profit = calculate_profit(ev.pre)], ev.pre_pool,
               Decision("do_nothing", NoPayload), turn, FALSE, 0).agent

\* C9: a decision whose action label is missing or is none of swap,
\* provide_liquidity, propose_alliance, do_nothing has exactly the effect
\* of do_nothing on the agent (balances, consecutive_inaction, bonuses) and
\* on the pool.
C9_UnknownIsDoNothing ==
    (/\ ev.op = "agent"
     /\ ev.exc = "none"
     /\ ev.decision.action \notin {"swap", "provide_liquidity", "propose_alliance", "do_nothing"})
        => /\ agents[ev.who] = AsDoNothing
           /\ pool = ev.pre_pool

\* C10: no failure of a persistence call made during the turns or at the
\* end of the run (an action, a bonus record, a state snapshot, the
\* metrics) aborts the run.
C10_PersistenceFailureHarmless ==
    ~(/\ pc = "raised"
      /\ ev.exc = "PersistenceError"
      /\ ~(ev.op = "raise" /\ ev.at = "initialize_run"))

\* The label execute_action dispatches on: "action", else "action_type",
\* else none.
Label(d) ==
    IF d.action # "MISSING" THEN d.action
    ELSE IF d.action_type # "MISSING" THEN d.action_type
    ELSE ""

\* The last step ran execute_action on a decision labelled l.
Executed(l) == ev.op = "agent" /\ ~ev.decision.empty /\ Label(ev.decision) = l

\* The agent of the last step has the balances it had before the step.
BalancesKept ==
    /\ agents[ev.who].token_a = ev.pre.token_a
    /\ agents[ev.who].token_b = ev.pre.token_b

\* The run went on from the last step to the next agent or, after the last
\* agent, to the boredom pass.
WentOn ==
    IF ev.who + 1 < sim.num_agents THEN pc = "agents" /\ idx = ev.who + 1
    ELSE pc = "boredom"

\* C16: execute_action with action do_nothing, or with an unrecognized or
\* missing action label, returns success and leaves the agent's token_a,
\* token_b and alliances and the pool's reserves and LP map as they were.
C16_NoHandlerNoEffect ==
    (/\ ev.op = "agent"
     /\ ~ev.decision.empty
     /\ Label(ev.decision) \notin {"swap", "provide_liquidity", "propose_alliance"})
        => /\ ev.success
           /\ ev.exc \in {"none", "PersistenceError"}
           /\ BalancesKept
           /\ agents[ev.who].alliances = ev.pre.alliances
           /\ pool.reserve_a = ev.pre_pool.reserve_a
           /\ pool.reserve_b = ev.pre_pool.reserve_b
           /\ pool.liquidity_providers = ev.pre_pool.liquidity_providers

\* C16 witness: agent 1, already allied with agent 0, answered a dict
\* without any label and with a payload that is no dict; the call
\* succeeded and changed nothing.
C16_Witness ==
    /\ Executed("")
    /\ ev.who = 1
    /\ ~ev.decision.payload.ok
    /\ ev.pre.alliances # NoMap
    /\ ev.success /\ ev.exc = "none"
    /\ BalancesKept /\ pool = ev.pre_pool

\* The balance of agent a in the token named t (none for any other name).
Funded(a, t, x) ==
    \/ t = "a" /\ RLe(x, a.token_a)
    \/ t = "b" /\ RLe(x, a.token_b)

\* C17: a swap action whose requested amount exceeds the agent's balance
\* in the declared source token, or whose source token is neither a nor
\* b, returns false without raising, changes neither the agent's balances
\* nor the pool's reserves, and the turn goes on with the next agent.
C17_UnfundedSwapFails ==
    (/\ Executed("swap")
     /\ ev.decision.payload.ok
     /\ ~Funded(ev.pre, ev.decision.payload.from, ev.decision.payload.amount))
        => /\ ~ev.success
           /\ ev.bonus = 0
           /\ ev.exc \in {"none", "PersistenceError"}
           /\ BalancesKept
           /\ pool = ev.pre_pool
           /\ ev.exc = "none" => WentOn

\* C17 witness: agent 0 asked to swap 500 of token A while holding less;
\* nothing moved and agent 1 is next.
C17_Witness ==
    /\ Executed("swap")
    /\ ev.who = 0
    /\ ev.decision.payload.from = "a" /\ ev.decision.payload.amount = R(500)
    /\ RLt(ev.pre.token_a, R(500))
    /\ ~ev.success
    /\ BalancesKept /\ pool = ev.pre_pool
    /\ pc = "agents" /\ idx = 1

\* What the pool of the last step paid out of the reserve opposite to t.
PaidOut(t) == RSub(ReserveOut(ev.pre_pool, t), ReserveOut(pool, t))

\* The agent of the last step paid x of token t (apart from the action
\* bonus, which goes to token_a) and received y of the other token.
Exchanged(t, x, y) ==
    IF t = "a"
    THEN /\ agents[ev.who].token_a = RAdd(RSub(ev.pre.token_a, x), R(ev.bonus))
         /\ agents[ev.who].token_b = RAdd(ev.pre.token_b, y)
    ELSE /\ agents[ev.who].token_b = RSub(ev.pre.token_b, x)
         /\ agents[ev.who].token_a = RAdd(RAdd(ev.pre.token_a, y), R(ev.bonus))

\* C18: a swap action succeeds exactly when the agent's balance in the
\* declared source token is at least the requested amount; on success the
\* source token is debited by the requested amount and the opposite token
\* is credited with exactly the net output (fee already deducted) that
\* Pool.swap returned for that amount.
C18_SwapAction ==
    (Executed("swap") /\ ev.decision.payload.ok) =>
        /\ ev.success <=> Funded(ev.pre, ev.decision.payload.from, ev.decision.payload.amount)
        /\ ev.success =>
                /\ Exchanged(ev.decision.payload.from, ev.decision.payload.amount,
                             PaidOut(ev.decision.payload.from))
                /\ PaidOut(ev.decision.payload.from) =
                       swap(ev.pre_pool, ev.decision.payload.from,
                            ev.decision.payload.amount).out
                /\ RPos(ev.decision.payload.amount) =>
                       PaidOut(ev.decision.payload.from) =
                           RMul(GrossOf(ev.pre_pool, ev.decision.payload.from,
                                        ev.decision.payload.amount),
                                RSub(R(1), SWAP_FEE))

\* C18 witness: agent 1 swapped 50 of token B at a moment when the pool
\* was no longer balanced, and holds what the pool paid out, fee deducted.
C18_Witness ==
    /\ Executed("swap")
    /\ ev.who = 1
    /\ ev.decision.payload.from = "b" /\ ev.decision.payload.amount = R(50)
    /\ ev.pre_pool.reserve_a # ev.pre_pool.reserve_b
    /\ ev.success
    /\ agents[1].token_b = RSub(ev.pre.token_b, R(50))
    /\ RPos(PaidOut("b"))
    /\ RLt(PaidOut("b"), GrossOf(ev.pre_pool, "b", R(50)))

\* C19: a provide_liquidity action succeeds exactly when token_a >=
\* amount_a and token_b >= amount_b; on success both declared amounts are
\* debited from the agent and Pool.provide_liquidity is called with them
\* under the agent's name; otherwise it returns false and neither the
\* agent nor the pool changes.
C19_LiquidityAction ==
    (Executed("provide_liquidity") /\ ev.decision.payload.ok) =>
        /\ ev.exc \in {"none", "PersistenceError"}
        /\ ev.success <=> /\ RLe(ev.decision.payload.amount_a, ev.pre.token_a)
                          /\ RLe(ev.decision.payload.amount_b, ev.pre.token_b)
        /\ IF ev.success
           THEN /\ agents[ev.who].token_a =
                       RAdd(RSub(ev.pre.token_a, ev.decision.payload.amount_a), R(ev.bonus))
                /\ agents[ev.who].token_b =
                       RSub(ev.pre.token_b, ev.decision.payload.amount_b)
                /\ pool = provide_liquidity(ev.pre_pool, ev.decision.payload.amount_a,
                                            ev.decision.payload.amount_b, ev.pre.name).pool
                /\ (RPos(ev.decision.payload.amount_a) /\ RPos(ev.decision.payload.amount_b))
                       => /\ pool.reserve_a =
                                 RAdd(ev.pre_pool.reserve_a, ev.decision.payload.amount_a)
                          /\ pool.reserve_b =
                                 RAdd(ev.pre_pool.reserve_b, ev.decision.payload.amount_b)
                          /\ DOMAIN pool.liquidity_providers =
                                 DOMAIN ev.pre_pool.liquidity_providers \cup {ev.pre.name}
           ELSE BalancesKept /\ ev.bonus = 0 /\ pool = ev.pre_pool

\* C19 witness: agent 1 deposited (50, 50), paid both amounts and is the
\* pool's only liquidity provider.
C19_Witness ==
    /\ Executed("provide_liquidity")
    /\ ev.who = 1
    /\ ev.success
    /\ ev.decision.payload.amount_a = R(50)
    /\ agents[1].token_b = RSub(ev.pre.token_b, R(50))
    /\ DOMAIN pool.liquidity_providers = {"Agent_1"}
    /\ pool.reserve_a = RAdd(ev.pre_pool.reserve_a, R(50))

(***************************************************************************)
(* Claims about the idle run, checked under SpecIdle.                      *)
(***************************************************************************)
\* Boredom passes run so far in the run.
BoredomPasses == turn + (IF pc \in {"alliances", "profit_bonus", "save_states"} THEN 1 ELSE 0)

\* total_boredom_penalty after n idle turns: 10 + 20 + ... + 10 n.
PenaltyAfter(n) == R(5 * n * (n + 1))

\* C6: in a 3-agent, 3-turn run where every decision is do_nothing, each
\* agent's total_boredom_penalty strictly increases from one turn to the
\* next (10, 30, 60 after turns 1, 2, 3), every alliance map stays empty,
\* no agent swaps (its token_b and the pool are as its step found them),
\* and the returned cooperation_rate is 0.
C6_IdleRun ==
    /\ \A k \in DOMAIN agents :
            /\ agents[k].alliances = NoMap
            /\ agents[k].token_b = R(INITIAL_TOKENS)
            /\ pc # "raised" =>
                    /\ agents[k].total_boredom_penalty = PenaltyAfter(BoredomPasses)
                    /\ agents[k].token_a = RSub(R(INITIAL_TOKENS), PenaltyAfter(BoredomPasses))
    /\ ev.op = "boredom" =>
            \A k \in DOMAIN agents :
                RLt(ev.pre[k].total_boredom_penalty, agents[k].total_boredom_penalty)
    /\ ev.op = "agent" => pool = ev.pre_pool /\ ev.bonus = 0
    /\ pc = "returned" => ev.metrics.cooperation_rate = Zero

\* C6 witness: the 3-agent run has returned after 3 turns, every agent
\* charged 60 in total, with cooperation_rate 0.
C6_Witness ==
    /\ pc = "returned"
    /\ turn = 3
    /\ DOMAIN agents = 0..2
    /\ \A k \in DOMAIN agents : agents[k].total_boredom_penalty = R(60)
    /\ ev.metrics.cooperation_rate = Zero

(***************************************************************************)
(* Claims about alliances, checked under SpecAlliances.                    *)
(***************************************************************************)
\* What the match after n earlier matches credits: 4.0, 2.0, then 0.0.
Credit(n) == IF n = 0 THEN R(4) ELSE IF n = 1 THEN R(2) ELSE Zero

\* Agents i and j had proposed to each other when the last pass started.
Matched(i, j) == i # j /\ mutual(ev.pre[i], ev.pre[j])

\* The credits due to agent i for its matches with the agents of S, each
\* by i's own counter toward that partner before the pass.
RECURSIVE CreditsDue(_, _)
CreditsDue(i, S) ==
    IF S = {} THEN Zero
    ELSE LET j == CHOOSE x \in S : TRUE
         IN  RAdd(IF Matched(i, j) THEN Credit(Proposals(ev.pre, i, j)) ELSE Zero,
                  CreditsDue(i, S \ {j}))

\* C4: the first, second and third mutual match of a pair credit each side
\* 4.0, 2.0 and 0.0 token_a and every later match 0.0, by the credited
\* agent's own proposal counter toward the partner, which counts the
\* pair's matches; after a match both statuses are 'success'.
C4_AllianceFatigue ==
    ev.op = "alliances" =>
        \A i \in DOMAIN agents :
            /\ agents[i].token_a = RAdd(ev.pre[i].token_a, CreditsDue(i, DOMAIN agents))
            /\ \A j \in DOMAIN agents \ {i} :
                    /\ Proposals(agents, i, j) = Proposals(agents, j, i)
                    /\ IF Matched(i, j)
                       THEN /\ Proposals(agents, i, j) = Proposals(ev.pre, i, j) + 1
                            /\ agents[i].alliances[AgentName(j)] = "success"
                            /\ agents[j].alliances[AgentName(i)] = "success"
                       ELSE /\ Proposals(agents, i, j) = Proposals(ev.pre, i, j)
                            /\ Get(agents[i].alliances, AgentName(j), "") =
                                   Get(ev.pre[i].alliances, AgentName(j), "")

\* C4 witness: a pass has resolved the fourth match of agents 0 and 1 and
\* the second match of agents 0 and 2; agent 0 was credited 0.0 + 2.0.
C4_Witness ==
    /\ ev.op = "alliances"
    /\ Matched(0, 1) /\ Proposals(ev.pre, 0, 1) = 3
    /\ Matched(0, 2) /\ Proposals(ev.pre, 0, 2) = 1
    /\ agents[0].token_a = RAdd(ev.pre[0].token_a, R(2))
    /\ agents[1].token_a = ev.pre[1].token_a

\* C20: a propose_alliance action with a non-empty partner name sets
\* alliances[partner] to 'proposed' (whatever the status was, 'success'
\* included), returns success and changes no balance, counter or pool
\* state; with an empty or missing partner name it returns failure and
\* changes nothing.
C20_ProposeAlliance ==
    ev.op = "propose" =>
        /\ ev.exc = "none"
        /\ pool = NonePool
        /\ \A k \in DOMAIN agents \ {ev.who} : agents[k] = ev.pre[k]
        /\ IF ev.agent_name # ""
           THEN /\ ev.success
                /\ agents[ev.who].alliances[ev.agent_name] = "proposed"
                /\ agents[ev.who] =
                       [ev.pre[ev.who] EXCEPT !.alliances =
                            [x \in DOMAIN ev.pre[ev.who].alliances \cup {ev.agent_name} |->
                                IF x = ev.agent_name THEN "proposed"
                                ELSE ev.pre[ev.who].alliances[x]]]
           ELSE /\ ~ev.success
                /\ agents[ev.who] = ev.pre[ev.who]

\* C20 witness: agent 0 proposed again to agent 1 while their alliance
\* stood at 'success'; the entry is back to 'proposed', the bonus it was
\* paid and its proposal counter are untouched.
C20_Witness ==
    /\ ev.op = "propose" /\ ev.who = 0 /\ ev.agent_name = "Agent_1"
    /\ Get(ev.pre[0].alliances, "Agent_1", "") = "success"
    /\ ev.success
    /\ Get(agents[0].alliances, "Agent_1", "") = "proposed"
    /\ agents[0].token_a = R(INITIAL_TOKENS + ALLIANCE_BONUS)
    /\ Proposals(agents, 0, 1) = 1

\* Each of agents i and j held 'proposed' toward the other when the last
\* pass started.
BothProposed(i, j) ==
    /\ i # j
    /\ Get(ev.pre[i].alliances, AgentName(j), "") = "proposed"
    /\ Get(ev.pre[j].alliances, AgentName(i), "") = "proposed"

\* The fatigue multiplier after n recorded proposals.
Multiplier(n) == IF n = 0 THEN R(1) ELSE IF n = 1 THEN Rat(1, 2) ELSE Zero

\* 4.0 times agent i's multiplier toward each partner of S that it was
\* mutually proposed with, by i's counters before the pass.
RECURSIVE BonusDue(_, _)
BonusDue(i, S) ==
    IF S = {} THEN Zero
    ELSE LET j == CHOOSE x \in S : TRUE
         IN  RAdd(IF BothProposed(i, j)
                  THEN RMul(R(ALLIANCE_BONUS), Multiplier(Proposals(ev.pre, i, j)))
                  ELSE Zero,
                  BonusDue(i, S \ {j}))

\* C21: alliance resolution changes state only for unordered pairs of
\* distinct agents in which each has status 'proposed' toward the other:
\* each side's token_a grows by 4.0 times its fatigue multiplier toward
\* the partner (as it was before the counters are incremented), each
\* side's proposal counter toward the other grows by 1 and both statuses
\* become 'success'; a one-sided proposal earns nothing and its status and
\* all counters stay as they were.
C21_OnlyMutualPairs ==
    ev.op = "alliances" =>
        /\ pool = NonePool
        /\ \A i \in DOMAIN agents :
                /\ agents[i].token_a = RAdd(ev.pre[i].token_a, BonusDue(i, DOMAIN agents))
                /\ agents[i].token_b = ev.pre[i].token_b
                /\ agents[i].consecutive_inaction = ev.pre[i].consecutive_inaction
                /\ agents[i].total_boredom_penalty = ev.pre[i].total_boredom_penalty
                /\ DOMAIN agents[i].alliances = DOMAIN ev.pre[i].alliances
                /\ \A j \in DOMAIN agents :
                        IF BothProposed(i, j)
                        THEN /\ Proposals(agents, i, j) = Proposals(ev.pre, i, j) + 1
                             /\ agents[i].alliances[AgentName(j)] = "success"
                        ELSE /\ Proposals(agents, i, j) = Proposals(ev.pre, i, j)
                             /\ Get(agents[i].alliances, AgentName(j), "") =
                                    Get(ev.pre[i].alliances, AgentName(j), "")
                /\ (\A j \in DOMAIN agents : ~BothProposed(i, j)) => agents[i] = ev.pre[i]

\* C21 witness: a pass found agents 1 and 2 mutually proposed for the
\* second time and paid each 2.0, while agent 0, proposed to itself and
\* to agent 1 (whose entry for agent 0 stood at 'success'), kept its
\* balance, its statuses and its counters.
C21_Witness ==
    /\ ev.op = "alliances"
    /\ BothProposed(1, 2) /\ Proposals(ev.pre, 1, 2) = 1
    /\ agents[1].token_a = RAdd(ev.pre[1].token_a, R(2))
    /\ agents[2].token_a = RAdd(ev.pre[2].token_a, R(2))
    /\ Get(ev.pre[0].alliances, "Agent_0", "") = "proposed"
    /\ Get(ev.pre[0].alliances, "Agent_1", "") = "proposed"
    /\ Get(ev.pre[1].alliances, "Agent_0", "") = "success"
    /\ agents[0] = ev.pre[0]
    /\ Get(agents[0].alliances, "Agent_1", "") = "proposed"

(***************************************************************************)
(* Claims about the boredom penalty, checked under SpecBoredom and Spec.   *)
(***************************************************************************)
\* C22: apply_boredom_penalty for an agent with consecutive_inaction = c
\* >= 1 debits exactly 10 * c from token_a (10, 20, 30 for c = 1, 2, 3),
\* leaves token_b alone, adds the same amount to total_boredom_penalty
\* and returns it, without clamping token_a at zero; with c = 0 it
\* returns 0 and changes nothing.
C22_BoredomPenalty ==
    ev.op = "apply_boredom_penalty" =>
        /\ ev.returned = R(10 * ev.pre.consecutive_inaction)
        /\ agents[0].token_a = RSub(ev.pre.token_a, R(10 * ev.pre.consecutive_inaction))
        /\ agents[0].token_b = ev.pre.token_b
        /\ agents[0].total_boredom_penalty =
               RAdd(ev.pre.total_boredom_penalty, R(10 * ev.pre.consecutive_inaction))
        /\ agents[0].consecutive_inaction = ev.pre.consecutive_inaction
        /\ ev.pre.consecutive_inaction = 0 => agents[0] = ev.pre

\* C22 witness: with consecutive_inaction = 3 and 10.0 token_a left, the
\* penalty of 30.0 was charged in full and token_a stands at -20.0.
C22_Witness ==
    /\ ev.op = "apply_boredom_penalty"
    /\ ev.pre.consecutive_inaction = 3
    /\ ev.pre.token_a = R(10)
    /\ ev.returned = R(30)
    /\ agents[0].token_a = R(-20)
    /\ agents[0].total_boredom_penalty = R(120)

\* C23: in every run, each agent's total_boredom_penalty never decreases
\* from one state to the next, and it changes only in the boredom pass,
\* by exactly the amount that pass debits from that agent's token_a.
C23_PenaltyOnlyGrows ==
    [][\A k \in DOMAIN agents \cap DOMAIN agents' :
            /\ RLe(agents[k].total_boredom_penalty, agents'[k].total_boredom_penalty)
            /\ agents'[k].total_boredom_penalty # agents[k].total_boredom_penalty =>
                    /\ pc = "boredom"
                    /\ RSub(agents'[k].total_boredom_penalty, agents[k].total_boredom_penalty)
                           = RSub(agents[k].token_a, agents'[k].token_a)]_vars

\* C23 witness: a boredom pass charged agent 0 for its second idle turn in
\* a row (20.0 on top of the 10.0 it had accumulated) and left agent 1's
\* total where it was.
C23_Witness ==
    /\ ev.op = "boredom"
    /\ ev.pre[0].total_boredom_penalty = R(10)
    /\ agents[0].total_boredom_penalty = R(30)
    /\ agents[0].token_a = RSub(ev.pre[0].token_a, R(20))
    /\ agents[1].total_boredom_penalty = ev.pre[1].total_boredom_penalty

(***************************************************************************)
(* Claims about the bonuses of a turn, checked under Spec.                 *)
(***************************************************************************)
\* Agent a's holdings exceed the 2 * INITIAL_TOKENS it started with.
InProfit(a) == RLt(R(200), RAdd(a.token_a, a.token_b))

\* C24: in the profit-bonus pass of a turn, every agent whose profit
\* (token_a + token_b - 2 * INITIAL_TOKENS) is > 0 at that moment receives
\* exactly +10.0 token_a once, and every agent whose profit is <= 0 is
\* left unchanged; token_b is never changed by this pass.
C24_ProfitBonusPass ==
    ProfitPassDone =>
        \A k \in DOMAIN agents :
            /\ agents[k].token_b = ev.pre[k].token_b
            /\ IF InProfit(ev.pre[k])
               THEN agents[k] = [ev.pre[k] EXCEPT !.token_a = RAdd(ev.pre[k].token_a, R(10))]
               ELSE agents[k] = ev.pre[k]

\* C24 witness: in one pass agent 0, 3.0 in profit, was paid 10.0 and
\* agent 1, 10.0 in loss, was paid nothing.
C24_Witness ==
    /\ ProfitPassDone
    /\ RAdd(ev.pre[0].token_a, ev.pre[0].token_b) = R(203)
    /\ agents[0].token_a = RAdd(ev.pre[0].token_a, R(10))
    /\ RAdd(ev.pre[1].token_a, ev.pre[1].token_b) = R(190)
    /\ agents[1] = ev.pre[1]

\* The agent of the last step, less the action bonus of that step, holds
\* more in total than it held before the step.
GainedByAction ==
    RLt(RAdd(ev.pre.token_a, ev.pre.token_b),
        RAdd(RSub(agents[ev.who].token_a, R(ev.bonus)), agents[ev.who].token_b))

\* C25: action bonuses are credited to token_a only, immediately after
\* the agent's own action and only when that action succeeded: +8 for
\* provide_liquidity; for swap +3, plus +5 when the agent's profit after
\* the swap exceeds its profit measured just before the swap (additive
\* with the coordination bonus of 0 or 5); propose_alliance, do_nothing
\* and failed actions earn no action bonus.
C25_ActionBonus ==
    (ev.op = "agent" /\ ev.exc \in {"none", "PersistenceError"}) =>
        /\ IF ev.decision.empty THEN BalancesKept
           ELSE /\ agents[ev.who].token_b =
                       execute_action(ev.pre, ev.decision, ev.pre_pool).agent.token_b
                /\ agents[ev.who].token_a =
                       RAdd(execute_action(ev.pre, ev.decision, ev.pre_pool).agent.token_a,
                            R(ev.bonus))
        /\ Acted(ev.who).amt = agents[ev.who].token_a
        /\ IF ev.decision.empty \/ ~ev.success THEN ev.bonus = 0
           ELSE IF ev.action_type = "provide_liquidity" THEN ev.bonus = 8
           ELSE IF ev.action_type = "swap"
           THEN ev.bonus - 3 - (IF GainedByAction THEN 5 ELSE 0) \in {0, 5}
           ELSE ev.bonus = 0

\* C25 witness: a successful swap that raised the agent's profit, in a
\* turn with a market-maker trade, earned 3 + 5 + 5.
C25_Witness ==
    /\ ev.op = "agent"
    /\ ev.action_type = "swap"
    /\ ev.success
    /\ GainedByAction
    /\ ev.bonus = 13
    /\ agents[ev.who].token_a = RAdd(RSub(ev.pre.token_a, R(50)), R(13))

(***************************************************************************)
(* Claims about the volatility events, checked under SpecVolatile.         *)
(***************************************************************************)
\* A trade of phase ph was logged in the current turn.
Fired(ph) == \E p \in DOMAIN hist : hist[p].ph = ph

\* The part of the last step's bonus that is neither the swap bonus nor
\* the profitable-trade bonus.
CoordinatedPart == ev.bonus - 3 - (IF GainedByAction THEN 5 ELSE 0)

\* C26: a successful swap action receives the +5 coordinated bonus if and
\* only if a market-maker event or a price-shock event fired in that same
\* turn; in particular a swap made in a turn in which a price shock fired
\* (and no market-maker event was scheduled) receives it.
C26_CoordinatedBonus ==
    (ev.op = "agent" /\ ev.exc = "none" /\ ev.action_type = "swap" /\ ev.success) =>
        (CoordinatedPart = 5 <=> (Fired("market_maker") \/ Fired("price_shock")))

\* C27: in every turn the volatility events that fire are applied to the
\* pool in the order market-maker, then price-shock, then chaos actor, and
\* all of them are applied before the first agent's decision of that turn
\* is solicited, so the pool state passed to every agent's decision in
\* that turn already reflects them.
C27_VolatilityFirst ==
    [][/\ pc = "market_maker" => hist = <<>>
       /\ pc' = "price_shock" => pc = "market_maker"
       /\ pc' = "chaos" => pc = "price_shock"
       /\ (pc' = "agents" /\ pc # "agents") => pc = "chaos"
       /\ pc \in {"market_maker", "price_shock", "chaos"} =>
              /\ agents' = agents
              /\ \A p \in DOMAIN hist : PhaseRank(hist[p].ph) < PhaseRank(pc)
              /\ pool' # pool => /\ hist' = Append(hist, Mark(pc, -1, ev'.amount))
                                 /\ ev'.pre_pool = pool
       /\ pc = "agents" =>
              /\ ev'.op = "agent" /\ ev'.who = idx /\ ev'.pre_pool = pool
              /\ \A p \in DOMAIN hist :
                     PhaseRank(hist[p].ph) < 3 \/ (hist[p].ph \in {"act", "act_bonus"}
                                                     /\ hist[p].who < idx)
              /\ pool' = execute_action(agents[idx], ev'.decision, pool).pool]_vars

\* C27 witness: in a turn where the market maker, a price shock and the
\* chaos actor all traded, in that order, agent 0 was handed the pool the
\* three of them left and did not touch it.
C27_Witness ==
    /\ ev.op = "agent" /\ ev.who = 0
    /\ Len(hist) = 4
    /\ hist[1].ph = "market_maker" /\ hist[2].ph = "price_shock" /\ hist[3].ph = "chaos"
    /\ hist[4].who = 0
    /\ ev.pre_pool.reserve_a # R(POOL_RESERVE)
    /\ pool = ev.pre_pool

(***************************************************************************)
(* Claims about the order of the agents, checked under Spec.               *)
(***************************************************************************)
\* C28: within a turn agents decide and act strictly one after another in
\* the fixed list order Agent_0 .. Agent_{n-1}: agent i's decision is
\* solicited only after agents 0..i-1 have executed their actions and
\* received their action bonuses in that turn, and the pool state given
\* to agent i reflects those actions.
C28_AgentsInListOrder ==
    [][pc = "agents" =>
          /\ ev'.op = "agent" /\ ev'.who = idx /\ ev'.pre.name = AgentName(idx)
          /\ ev'.pre_pool = pool
          /\ pool' = IF ev'.decision.empty THEN pool
                     ELSE execute_action(agents[idx], ev'.decision, pool).pool
          /\ \A k \in DOMAIN agents : k # idx => agents'[k] = agents[k]
          /\ \A k \in 0..idx - 1 :
                 /\ Acted(k).ph \in {"act", "act_bonus"}
                 /\ Acted(k).amt = agents[k].token_a
          /\ \A k \in idx..sim.num_agents - 1 : Acted(k).ph = "missing"
          /\ idx > 0 => /\ ev.op = "agent" /\ ev.who = idx - 1 /\ ev.exc = "none"
                         /\ Acted(idx - 1).ph = "act_bonus" <=> ev.bonus > 0
          /\ pc' = "agents" => idx' = idx + 1
          /\ pc' \notin {"agents", "raised"} => idx = sim.num_agents - 1]_vars

\* C28 witness: agent 1 acted on the pool as agent 0's swap of the same
\* turn had left it, after agent 0 had been paid its swap bonus.
C28_Witness ==
    /\ ev.op = "agent" /\ ev.who = 1
    /\ Len(hist) = 2
    /\ hist[1] = Mark("act_bonus", 0, agents[0].token_a)
    /\ hist[2].who = 1
    /\ agents[0].token_a = R(53)
    /\ ev.pre_pool.reserve_a = R(1050)

(***************************************************************************)
(* Claims about the Gini coefficient, checked under SpecGini and Spec.     *)
(***************************************************************************)
\* Every entry of the vector is the same value, which is > 0.
ConstantAbove0(values) ==
    /\ values # <<>>
    /\ RPos(values[1])
    /\ \A p \in DOMAIN values : values[p] = values[1]

\* x lies in [0, 1].
InUnitRange(x) == RLe(Zero, x) /\ RLe(x, R(1))

C30_FinalGiniInUnitRange ==
    pc = "returned" => InUnitRange(ev.metrics.gini_coefficient)

(***************************************************************************)
(* Claims about the volatility events, checked under Spec.                 *)
(***************************************************************************)
\* 0.15 times reserve_a of the pool.
MakerAmount == RMul(pool.reserve_a, Rat(15, 100))

\* C31: the market-maker event fires in turn index t exactly when
\* (t + 1) mod 3 = 0 (turns 2, 5, 8, ...) and in no other turn, and when
\* it fires it performs exactly one pool swap whose input amount is 0.15
\* times the pre-swap reserve_a, in one of the two directions.
C31_MarketMakerSchedule ==
    [][/\ pc # "market_maker" => ev'.op # "market_maker"
       /\ pc = "market_maker" =>
              IF (turn + 1) % 3 = 0
              THEN /\ ev'.op = "market_maker"
                   /\ ev'.amount = MakerAmount
                   /\ hist' = Append(hist, Mark("market_maker", -1, MakerAmount))
                   /\ \/ /\ pool' = swap(pool, "a", MakerAmount).pool
                         /\ pool'.reserve_a = RAdd(pool.reserve_a, MakerAmount)
                         /\ RLt(pool'.reserve_b, pool.reserve_b)
                      \/ /\ pool' = swap(pool, "b", MakerAmount).pool
                         /\ pool'.reserve_b = RAdd(pool.reserve_b, MakerAmount)
                         /\ RLt(pool'.reserve_a, pool.reserve_a)
              ELSE /\ ev'.op = "no_market_maker"
                   /\ pool' = pool
                   /\ hist' = hist]_vars

\* C31 witness: in turn 2 the market maker put 150 of token B into the
\* untouched pool.
C31_Witness ==
    /\ ev.op = "market_maker"
    /\ turn = 2
    /\ ev.pre_pool.reserve_a = R(POOL_RESERVE)
    /\ ev.amount = R(150)
    /\ ev.direction = "buy_a"
    /\ pool.reserve_b = R(1150)
    /\ hist = <<Mark("market_maker", -1, R(150))>>

\* The next step of the run is one of the three volatility events.
VolatilityPhase == pc \in {"market_maker", "price_shock", "chaos"}

\* C32: no volatility event (market maker, price shock, chaos swap, chaos
\* liquidity, chaos massive_swap) changes any agent's token_a, token_b,
\* alliances, counters or LP share; they change only the pool reserves
\* and, for chaos liquidity, the LP balance of the 'ChaosAgent' entry.
C32_VolatilityTouchesPoolOnly ==
    [][VolatilityPhase =>
          /\ agents' = agents
          /\ \A name \in DOMAIN pool.liquidity_providers \ {"ChaosAgent"} :
                 /\ name \in DOMAIN pool'.liquidity_providers
                 /\ pool'.liquidity_providers[name] = pool.liquidity_providers[name]
          /\ DOMAIN pool'.liquidity_providers \subseteq
                 DOMAIN pool.liquidity_providers \cup {"ChaosAgent"}
          /\ pool'.liquidity_providers # pool.liquidity_providers =>
                 (ev'.op = "chaos" /\ ev'.action_type = "liquidity")
          /\ pool'.constant_product = RMul(pool'.reserve_a, pool'.reserve_b)
          /\ turn' = turn /\ idx' = idx /\ sim' = sim]_vars

\* C32 witness: the chaos actor deposited a quarter of both reserves into
\* a pool in which agent 0 held 50 LP tokens; agent 0 still holds 50 and
\* the 525 minted are under 'ChaosAgent'.
C32_Witness ==
    /\ ev.op = "chaos" /\ ev.action_type = "liquidity"
    /\ ev.pre_pool.liquidity_providers = [x \in {"Agent_0"} |-> R(50)]
    /\ pool.liquidity_providers["Agent_0"] = R(50)
    /\ pool.liquidity_providers["ChaosAgent"] = R(525)
    /\ pool.reserve_a = RAdd(ev.pre_pool.reserve_a, ev.amount)

(***************************************************************************)
(* Claims about the agents' actions, checked under Spec.                   *)
(***************************************************************************)
\* What the last step added to its agent's balances, the action bonus
\* apart, and to the pool's reserves.
AgentGainA == RSub(RSub(agents[ev.who].token_a, R(ev.bonus)), ev.pre.token_a)

AgentGainB == RSub(agents[ev.who].token_b, ev.pre.token_b)

PoolGainA == RSub(pool.reserve_a, ev.pre_pool.reserve_a)

PoolGainB == RSub(pool.reserve_b, ev.pre_pool.reserve_b)

\* C33: for every successful swap or provide_liquidity action executed by
\* an agent, and for each of the two tokens, the change of the agent's
\* balance plus the change of the pool's reserve is zero (the action
\* itself neither creates nor destroys tokens), for every payload amount
\* that passes the balance check, including zero amounts, negative
\* amounts and liquidity deposits where only one of the two amounts is
\* positive.
C33_TokensConserved ==
    ((Executed("swap") \/ Executed("provide_liquidity"))
        /\ ev.decision.payload.ok /\ ev.success /\ ev.exc = "none") =>
        /\ RAdd(AgentGainA, PoolGainA) = Zero
        /\ RAdd(AgentGainB, PoolGainB) = Zero

\* The part of C33 that holds: the tokens are conserved when every amount
\* of the payload is >= 0 and a deposit has both amounts > 0 or both = 0.
C33_TokensConservedWhenPositive ==
    ((Executed("swap") \/ Executed("provide_liquidity"))
        /\ ev.decision.payload.ok /\ ev.success /\ ev.exc = "none"
        /\ (Executed("swap") => RLe(Zero, ev.decision.payload.amount))
        /\ (Executed("provide_liquidity") =>
               \/ RPos(ev.decision.payload.amount_a) /\ RPos(ev.decision.payload.amount_b)
               \/ ev.decision.payload.amount_a = Zero /\ ev.decision.payload.amount_b = Zero)) =>
        /\ RAdd(AgentGainA, PoolGainA) = Zero
        /\ RAdd(AgentGainB, PoolGainB) = Zero

\* Agent k was charged in the step: its token_a went down and its
\* total_boredom_penalty went up.
Charged(k) ==
    /\ RLt(agents'[k].token_a, agents[k].token_a)
    /\ RLt(agents[k].total_boredom_penalty, agents'[k].total_boredom_penalty)

\* C34: with the default threshold 1, for every non-empty decision an
\* agent is charged a boredom penalty in a turn if and only if its action
\* label in that turn was do_nothing (including the oracle-failure
\* substitute); any other label, even when the action fails for
\* insufficient balance, resets consecutive_inaction to 0, so at the end
\* of every turn consecutive_inaction equals the number of consecutive
\* do_nothing turns ending at that turn.  (The counter starts at 0, an
\* agent's own step makes it the length of its do_nothing streak, no
\* other step changes it, and the boredom pass charges exactly the agents
\* whose counter is not 0.)
C34_InactionCounted ==
    [][/\ pc = "constructed" =>
              \A k \in DOMAIN agents' : agents'[k].consecutive_inaction = 0
       /\ pc # "constructed" =>
              \A k \in DOMAIN agents :
                 IF pc = "agents" /\ k = idx
                 THEN (~ev'.decision.empty /\ ev'.exc = "none") =>
                          agents'[k].consecutive_inaction =
                              IF ev'.action_type = "do_nothing"
                              THEN agents[k].consecutive_inaction + 1
                              ELSE 0
                 ELSE agents'[k].consecutive_inaction = agents[k].consecutive_inaction
       /\ pc = "boredom" =>
              \A k \in DOMAIN agents :
                 /\ Charged(k) <=> agents[k].consecutive_inaction >= 1
                 /\ ~Charged(k) => agents'[k] = agents[k]
       /\ pc \notin {"constructed", "boredom"} =>
              \A k \in DOMAIN agents :
                 agents'[k].total_boredom_penalty = agents[k].total_boredom_penalty]_vars

\* C34 witness: an agent that had done nothing in the turn before asked
\* for a swap of 500 token A, which failed for insufficient balance, and
\* its counter is back at 0.
C34_Witness ==
    /\ ev.op = "agent"
    /\ ev.action_type = "swap"
    /\ ev.decision.payload.amount = R(500)
    /\ ~ev.success
    /\ ev.pre.consecutive_inaction = 1
    /\ RPos(ev.pre.total_boredom_penalty)
    /\ agents[ev.who].consecutive_inaction = 0

(***************************************************************************)
(* Claims about the alliance counters, checked under SpecAlliances.        *)
(***************************************************************************)
\* Agent i's proposal counter toward agent j.
Counter(i, j) == Get(agents[i].alliance_proposals, AgentName(j), 0)

\* C35: in every reachable state and for every pair of agents A and B,
\* A's alliance proposal counter toward B equals B's counter toward A
\* (counters change only together, on a mutual match, never on a
\* one-sided proposal), so the two sides of a mutual alliance always
\* receive the same bonus.
C35_CountersSymmetric ==
    /\ \A i, j \in DOMAIN agents :
            i # j => /\ Counter(i, j) = Counter(j, i)
                     /\ get_alliance_fatigue(agents[i], AgentName(j))
                            = get_alliance_fatigue(agents[j], AgentName(i))
    /\ ev.op = "propose" =>
            \A i, j \in DOMAIN agents :
                Get(agents[i].alliance_proposals, AgentName(j), 0)
                    = Get(ev.pre[i].alliance_proposals, AgentName(j), 0)
    /\ ev.op = "alliances" =>
            \A i, j \in DOMAIN agents :
                i # j => Counter(i, j) - Get(ev.pre[i].alliance_proposals, AgentName(j), 0)
                            = Counter(j, i) - Get(ev.pre[j].alliance_proposals, AgentName(i), 0)

\* C35 witness: agents 0 and 1 were matched twice and count 2 toward each
\* other, while agent 2's standing proposal to agent 0 is counted by
\* neither of the two.
C35_Witness ==
    /\ Counter(0, 1) = 2 /\ Counter(1, 0) = 2
    /\ Get(agents[2].alliances, "Agent_0", "") = "proposed"
    /\ Get(agents[0].alliances, "Agent_2", "") = ""
    /\ Counter(2, 0) = 0 /\ Counter(0, 2) = 0

(***************************************************************************)
(* Claims about alliances within a run, checked under Spec.                *)
(***************************************************************************)
\* The alliance pass of the current turn is over and no agent of the next
\* turn has acted yet.
TurnResolved ==
    pc \in {"profit_bonus", "save_states", "finish", "returned"}
        \/ (turn > 0 /\ (pc \in {"market_maker", "price_shock", "chaos"}
                          \/ (pc = "agents" /\ idx = 0)))

\* C36: at the end of every turn no pair of distinct agents has status
\* 'proposed' toward each other simultaneously, and a pair whose statuses
\* are 'success' receives no further alliance bonus in later turns unless
\* both agents propose to each other again; each mutual match is
\* therefore paid at most once.
C36_MatchPaidOnce ==
    /\ TurnResolved =>
            \A i, j \in DOMAIN agents :
                i # j => ~(/\ Get(agents[i].alliances, AgentName(j), "") = "proposed"
                           /\ Get(agents[j].alliances, AgentName(i), "") = "proposed")
    /\ ev.op = "alliances" =>
            \A i \in DOMAIN agents :
                (\A j \in DOMAIN agents \ {i} :
                     \/ Get(ev.pre[i].alliances, AgentName(j), "") # "proposed"
                     \/ Get(ev.pre[j].alliances, AgentName(i), "") # "proposed")
                    => agents[i] = ev.pre[i]

\* C36 witness: in turn 1 the pair matched in turn 0 came to the alliance
\* pass with agent 0 proposing again and agent 1 still at 'success';
\* nobody was paid and the counters stayed at 1.
C36_Witness ==
    /\ ev.op = "alliances"
    /\ turn = 1
    /\ Get(ev.pre[0].alliances, "Agent_1", "") = "proposed"
    /\ Get(ev.pre[1].alliances, "Agent_0", "") = "success"
    /\ Get(ev.pre[0].alliance_proposals, "Agent_1", 0) = 1
    /\ agents = ev.pre

\* Agent i's status toward agent j in the agents as.
Status(as, i, j) == Get(as[i].alliances, AgentName(j), "")

\* C37: a one-sided alliance proposal never expires: if agent A proposes
\* to B in turn t and B first proposes to A in a later turn t' > t (A not
\* having been matched with B in between), the pair is resolved as a
\* mutual alliance in turn t' even though A did not propose in turn t'.
\* (A status 'proposed' stays until an alliance pass finds the other side
\* at 'proposed' too, and a pass that runs to its end pays both sides
\* whenever it was that each side proposed.)
C37_ProposalStands ==
    [][/\ \A i \in DOMAIN agents \cap DOMAIN agents', j \in DOMAIN agents :
              (Status(agents, i, j) = "proposed" /\ Status(agents', i, j) # "proposed") =>
                  /\ pc = "alliances"
                  /\ i # j
                  /\ Status(agents, j, i) = "proposed"
                  /\ Status(agents', i, j) = "success"
       /\ (pc = "alliances" /\ ev'.exc = "none") =>
              \A i, j \in DOMAIN agents :
                  (i # j /\ Status(agents, i, j) = "proposed"
                         /\ Status(agents, j, i) = "proposed") =>
                      /\ Status(agents', i, j) = "success"
                      /\ Get(agents'[i].alliance_proposals, AgentName(j), 0)
                             = Get(agents[i].alliance_proposals, AgentName(j), 0) + 1
                      /\ RLe(RAdd(agents[i].token_a,
                                  RMul(R(4), Multiplier(Get(agents[i].alliance_proposals,
                                                            AgentName(j), 0)))),
                             agents'[i].token_a)
                      /\ (\A k \in DOMAIN agents \ {i, j} :
                              Status(agents, i, k) # "proposed") =>
                             agents'[i].token_a =
                                 RAdd(agents[i].token_a,
                                      RMul(R(4), Multiplier(Get(agents[i].alliance_proposals,
                                                                AgentName(j), 0))))]_vars

\* C37 witness: agent 0 proposed to agent 1 in turn 0 and did nothing in
\* turn 1 (it has just been charged its first 10.0 for that); agent 1
\* proposed to agent 0 in turn 1, and the alliance pass of turn 1 paid
\* both of them 4.0.
C37_Witness ==
    /\ ev.op = "alliances"
    /\ turn = 1
    /\ ev.pre[0].consecutive_inaction = 1
    /\ ev.pre[0].total_boredom_penalty = R(10)
    /\ Status(ev.pre, 0, 1) = "proposed"
    /\ Status(ev.pre, 1, 0) = "proposed"
    /\ ev.pre[1].consecutive_inaction = 0
    /\ agents[0].token_a = RAdd(ev.pre[0].token_a, R(4))
    /\ agents[1].token_a = RAdd(ev.pre[1].token_a, R(4))
    /\ Status(agents, 0, 1) = "success" /\ Status(agents, 1, 0) = "success"

(***************************************************************************)
(* A further claim about the pool, checked under SpecPool.                 *)
(***************************************************************************)
\* C38: a swap with amount_in > 0 on a pool with positive reserves pays
\* out strictly less than the pre-swap reserve_out, however large
\* amount_in is, so a swap alone never brings either reserve to zero or
\* below.
C38_SwapNeverDrains ==
    (ev.op = "swap" /\ RPos(ev.y) /\ RPos(ev.pre.reserve_a) /\ RPos(ev.pre.reserve_b)) =>
        /\ ev.exc = "none"
        /\ RLt(ev.result.out, ReserveOut(ev.pre, ev.x))
        /\ RLt(RAdd(ev.result.out, ev.result.fee), ReserveOut(ev.pre, ev.x))
        /\ RPos(pool.reserve_a)
        /\ RPos(pool.reserve_b)
        /\ ReserveOut(pool, ev.x) = RSub(ReserveOut(ev.pre, ev.x), ev.result.out)

\* C38 witness: 100000 of token A, forty thousand times the reserve, went
\* into the pool (2.5, 2.5); it paid out more than 2.49 of its 2.5 token B
\* and still holds some.
C38_Witness ==
    /\ ev.op = "swap" /\ ev.x = "a" /\ ev.y = R(100000)
    /\ ev.pre.reserve_a = Rat(5, 2) /\ ev.pre.reserve_b = Rat(5, 2)
    /\ RLt(Rat(249, 100), ev.result.out)
    /\ RLt(ev.result.out, Rat(5, 2))
    /\ RPos(pool.reserve_b)

(***************************************************************************)
(* Claims about the web handler, checked under SpecWeb.                    *)
(***************************************************************************)
\* C39: when the simulation started by the POST /api/runs handler raises
\* after its run record has been created in persistence (status
\* 'running'), the handler updates that run's persisted status to
\* 'failed' (or 'timeout' for a TimeoutError), so such a run does not
\* remain in status 'running'.
C39_FailedRunMarked ==
    (pc = "web_responded" /\ sim.current_run_id # 0) =>
        hist[sim.current_run_id].status =
            IF ev.exc = "TimeoutError" THEN "timeout" ELSE "failed"

====
